---- MODULE Spec2Model ----
(***************************************************************************)
(* House financial disclosures: the PTR parsing pipeline.                  *)
(*                                                                         *)
(* A text is a sequence of lexemes.  A lexeme is a string: one character   *)
(* the patterns of the program test on its own ("[", "(", " "), a literal  *)
(* the patterns match as a whole ("P", "S:", the table header phrase), a   *)
(* date, money or digit run, or a word that no pattern looks into.  The    *)
(* document text is the concatenation of its lexemes; each pattern of the  *)
(* program is translated to what it matches on such a sequence.            *)
(***************************************************************************)
EXTENDS Integers, Sequences, FiniteSets, TLC

\* ------------------------------------------------------------- lexemes

SP == " "
NL == "\n"
NUL == "<NUL>"
Whitespace == {SP, NL}

TABLE_HEADER == "ID Owner Asset Transaction Type Date Notification Date Amount Cap. Gains > $200?"
TABLE_FOOTER == "* For the complete list of asset type"
FILING_ID_PREFIX == "Filing ID #"

\* The characters of the lexemes whose characters the program reads.
Chars ==
     ("03/14/2024" :> <<"0","3","/","1","4","/","2","0","2","4">>)
  @@ ("03/15/2024" :> <<"0","3","/","1","5","/","2","0","2","4">>)
  @@ ("01/15/2024" :> <<"0","1","/","1","5","/","2","0","2","4">>)
  @@ ("13/14/2024" :> <<"1","3","/","1","4","/","2","0","2","4">>)
  @@ ("$1,001" :> <<"$","1",",","0","0","1">>)
  @@ ("$15,000" :> <<"$","1","5",",","0","0","0">>)
  @@ ("$" :> <<"$">>)
  @@ ("123456" :> <<"1","2","3","4","5","6">>)
  @@ ("77" :> <<"7","7">>)

Digit == {"0","1","2","3","4","5","6","7","8","9"}
DigitValue == ("0" :> 0) @@ ("1" :> 1) @@ ("2" :> 2) @@ ("3" :> 3) @@ ("4" :> 4)
           @@ ("5" :> 5) @@ ("6" :> 6) @@ ("7" :> 7) @@ ("8" :> 8) @@ ("9" :> 9)

CharsOf(x) == IF x \in DOMAIN Chars THEN Chars[x] ELSE <<x>>

AllDigits(cs) == \A i \in 1..Len(cs) : cs[i] \in Digit

\* int(): the number a run of decimal digits denotes.
RECURSIVE int(_)
int(cs) == IF cs = <<>> THEN 0 ELSE 10 * int(SubSeq(cs, 1, Len(cs) - 1)) + DigitValue[cs[Len(cs)]]

\* \d+ taken as a whole lexeme
IsDigits(x) == x \in DOMAIN Chars /\ AllDigits(Chars[x])

\* Date.PATTERN, \d{1,2}/\d{1,2}/\d{4}, matching a whole lexeme
DatePattern(x) ==
  /\ x \in DOMAIN Chars
  /\ LET cs == Chars[x]
     IN \E a \in 1..2, b \in 1..2 :
          /\ Len(cs) = a + b + 6
          /\ AllDigits(SubSeq(cs, 1, a))
          /\ cs[a + 1] = "/"
          /\ AllDigits(SubSeq(cs, a + 2, a + b + 1))
          /\ cs[a + b + 2] = "/"
          /\ AllDigits(SubSeq(cs, a + b + 3, a + b + 6))

\* AmountRange.MONETARY_AMOUNT_PATTERN, \$[\d,]*, matching a whole lexeme
MonetaryAmountPattern(x) ==
  /\ x \in DOMAIN Chars
  /\ LET cs == Chars[x]
     IN cs[1] = "$" /\ \A i \in 2..Len(cs) : cs[i] \in Digit \cup {","}

\* ------------------------------------------------------------- strings

\* Optional[T]: None, or a value
None == <<>>
Some(v) == <<v>>

At(t, p) == IF p >= 1 /\ p <= Len(t) THEN t[p] ELSE ""
IsWs(c) == c \in Whitespace

RECURSIVE Join(_, _)
\* sep.join(parts)
Join(parts, sep) ==
  IF parts = <<>> THEN <<>>
  ELSE IF Len(parts) = 1 THEN parts[1]
  ELSE parts[1] \o sep \o Join(Tail(parts), sep)

\* str.replace(x, '') / re.sub of a one-lexeme pattern by ''
Remove(t, x) == SelectSeq(t, LAMBDA c : c # x)

\* re.sub(r'\s+', ' ', t): every run of whitespace becomes one space
CollapseWhitespace(t) ==
  LET sub == [i \in 1..Len(t) |->
                IF ~IsWs(t[i]) THEN t[i]
                ELSE IF i < Len(t) /\ IsWs(t[i + 1]) THEN ""
                ELSE SP]
  IN SelectSeq(sub, LAMBDA c : c # "")

\* str.strip() and its halves
lstrip(t) ==
  LET text == {i \in 1..Len(t) : ~IsWs(t[i])}
  IN IF text = {} THEN <<>>
     ELSE SubSeq(t, CHOOSE i \in text : \A j \in text : i <= j, Len(t))
rstrip(t) ==
  LET text == {i \in 1..Len(t) : ~IsWs(t[i])}
  IN IF text = {} THEN <<>>
     ELSE SubSeq(t, 1, CHOOSE i \in text : \A j \in text : i >= j)
strip(t) == rstrip(lstrip(t))

\* The positions of the occurrences of a one-lexeme pattern, and the first.
Occurrences(t, x) == {i \in 1..Len(t) : t[i] = x}
Min(S) == CHOOSE m \in S : \A n \in S : m <= n

\* ------------------------------------------------------- normalisation

cleanse_raw_text_collapse_first(raw_text) == Remove(CollapseWhitespace(raw_text), NUL)

cleanse_raw_text(raw_text) == CollapseWhitespace(Remove(raw_text, NUL))

extract_cleansed_text(page_texts) == cleanse_raw_text(Join(page_texts, <<SP>>))

\* ---------------------------------------------------- block extraction

\* The literal 'Filing ID #' may stand in a text as one lexeme or as the
\* two pieces "Fil" and "ing ID #" next to each other: where its last lexeme
\* is when it starts at s, 0 when it does not start there.
FilingIdPrefixEnd(t, s) ==
  IF At(t, s) = FILING_ID_PREFIX THEN s
  ELSE IF At(t, s) = "Fil" /\ At(t, s + 1) = "ing ID #" THEN s + 1
  ELSE 0

\* where r'Filing ID #\d+' matches: the literal with a digit after it
FilingIdStarts(t) ==
  {s \in 1..Len(t) : FilingIdPrefixEnd(t, s) > 0 /\ IsDigits(At(t, FilingIdPrefixEnd(t, s) + 1))}

\* the text without its matches: the literal and the whole run of digits
\* after it (\d+ is greedy) go, in one pass over the text
RemoveMatches(t, starts) ==
  LET sub == [i \in 1..Len(t) |->
                IF \E s \in starts :
                     s <= i /\ \A j \in (FilingIdPrefixEnd(t, s) + 1)..i : IsDigits(t[j])
                THEN "" ELSE t[i]]
  IN SelectSeq(sub, LAMBDA c : c # "")

\* re.sub(r'Filing ID #\d+', '', t)
RemoveFilingIds(t) == RemoveMatches(t, FilingIdStarts(t))

extract_transactions_block(raw_text) ==
  LET table_header_matches == Occurrences(raw_text, TABLE_HEADER)
  IN IF table_header_matches = {} THEN raw_text
     ELSE LET after_header == SubSeq(raw_text, Min(table_header_matches) + 1, Len(raw_text))
              no_headers == Remove(after_header, TABLE_HEADER)
              table_footer_match == Occurrences(no_headers, TABLE_FOOTER)
          IN IF table_footer_match = {} THEN no_headers
             ELSE strip(RemoveFilingIds(SubSeq(no_headers, 1, Min(table_footer_match) - 1)))

\* ------------------------------------------- the transaction pattern
(***************************************************************************)
(* Transaction.GROUP_PATTERN (models.py) and TRANSACTION_PATTERN           *)
(* (parse.py), matched as the regex engine matches them: every quantifier  *)
(* tries its alternatives in its own order (greedy: longest first; lazy:   *)
(* shortest first; an optional group: with the group first), and the match *)
(* is the first combination under which the whole pattern matches.  A      *)
(* position p in 1..Len(t)+1 is the place before lexeme p; Len(t)+1 is \Z. *)
(* The two patterns differ in the type group only.                         *)
(***************************************************************************)

NoMatch == [ok |-> FALSE]

RECURSIVE WsRunEnd(_, _)
\* the position after the longest run of whitespace starting at p
WsRunEnd(t, p) == IF IsWs(At(t, p)) THEN WsRunEnd(t, p + 1) ELSE p

AtEnd(t, p) == p = Len(t) + 1

\* Asset.PATTERN, .*?\[.*?\], matches at p (as a lookahead)
AssetAhead(t, p) ==
  \E i \in p..Len(t) : t[i] = "[" /\ \E j \in (i + 1)..Len(t) : t[j] = "]"

\* SUBHOLDING_OF_PATTERN S\sO: / COMMENT_PATTERN C: / DESCRIPTION_PATTERN D:
SubholdingOfAt(t, p) == At(t, p) = "S" /\ IsWs(At(t, p + 1)) /\ At(t, p + 2) = "O:"
CommentAt(t, p) == At(t, p) = "C:"
DescriptionAt(t, p) == At(t, p) = "D:"

\* the final lookahead (?=\s*(ASSET|\Z))
FinalLookahead(t, p) ==
  \E r \in p..WsRunEnd(t, p) : AssetAhead(t, r) \/ AtEnd(t, r)

\* The optional groups, numbered in the pattern's order: 1 subholding_of,
\* 2 comment, 3 description.  MarkerLen is the length of group k's marker
\* at p, 0 when it is not there; Lookahead is the lookahead closing group k
\* (k = 0: the one closing filing_status).
MarkerLen(t, k, p) ==
  CASE k = 1 -> IF SubholdingOfAt(t, p) THEN 3 ELSE 0
    [] k = 2 -> IF CommentAt(t, p) THEN 1 ELSE 0
    [] k = 3 -> IF DescriptionAt(t, p) THEN 1 ELSE 0

Lookahead(t, k, p) ==
  CASE k = 0 -> SubholdingOfAt(t, p) \/ DescriptionAt(t, p) \/ CommentAt(t, p)
                  \/ AtEnd(t, p) \/ AssetAhead(t, p)
    [] k = 1 -> DescriptionAt(t, p) \/ CommentAt(t, p) \/ AtEnd(t, p) \/ AssetAhead(t, p)
    [] k = 2 -> DescriptionAt(t, p) \/ AtEnd(t, p) \/ AssetAhead(t, p)
    [] k = 3 -> CommentAt(t, p) \/ AtEnd(t, p) \/ AssetAhead(t, p)

Max(S) == CHOOSE m \in S : \A n \in S : m >= n

\* Of the candidates for the place where a lazy group closes, each with
\* what the rest of the pattern matches from there, those that work.
Working(candidates) == {c \in candidates : c.rest.ok}

\* Optional group k read from its marker at a (of length n): its text
\* starts at b, the latest start in the whitespace after the marker that a
\* working close follows, and ends at the nearest such close; without any,
\* the group is skipped and the match is the one without it.
GroupOrSkip(t, a, n, closes, without) ==
  LET starts == {b \in (a + n)..WsRunEnd(t, a + n) : \E c \in closes : c.q >= b}
  IN IF starts # {}
     THEN LET b == Max(starts)
              q == Min({c.q : c \in {c \in closes : c.q >= b}})
              rest == (CHOOSE c \in closes : c.q = q).rest
          IN [ok |-> TRUE, end |-> rest.end, caps |-> <<Some(SubSeq(t, b, q - 1))>> \o rest.caps]
     ELSE IF without.ok
     THEN [ok |-> TRUE, end |-> without.end, caps |-> <<None>> \o without.caps]
     ELSE NoMatch

RECURSIVE Annotations(_, _, _)
\* The pattern from optional group k on, at p: the end of the match and the
\* captures of groups k..3, or NoMatch.  Group k is
\*   (?:\s*MARKER\s*(?P<name>.*?)\s(?=...))?
\* The text starts after \s* (the longest run first) and is closed by the
\* whitespace at q (the nearest first) under which the rest matches;
\* whether q closes it does not depend on the start.  The group is skipped
\* only when it matches in no way.
Annotations(t, k, p) ==
  IF k = 4
  THEN IF FinalLookahead(t, p) THEN [ok |-> TRUE, end |-> p, caps |-> <<>>] ELSE NoMatch
  ELSE GroupOrSkip(t, WsRunEnd(t, p), MarkerLen(t, k, WsRunEnd(t, p)),
                   IF MarkerLen(t, k, WsRunEnd(t, p)) = 0 THEN {}
                   ELSE Working({[q |-> q, rest |-> Annotations(t, k + 1, q + 1)] :
                                   q \in {q \in (WsRunEnd(t, p) + 1)..Len(t) :
                                            IsWs(t[q]) /\ Lookahead(t, k, q + 1)}}),
                   Annotations(t, k + 1, p))

\* the nearest working close of the filing status text that starts at b
NearestClose(t, b, closes) ==
  IF closes = {} THEN NoMatch
  ELSE LET q == Min({c.q : c \in closes})
           rest == (CHOOSE c \in closes : c.q = q).rest
       IN [ok |-> TRUE, end |-> rest.end, filing_status |-> SubSeq(t, b, q - 1),
           caps |-> rest.caps]

\* (?P<filing_status>.*?)\s(?=...) from b, then the optional groups: the
\* text is closed by the nearest whitespace under which the rest matches
FilingStatusText(t, b) ==
  NearestClose(t, b,
               Working({[q |-> q, rest |-> Annotations(t, 1, q + 1)] :
                          q \in {q \in b..Len(t) : IsWs(t[q]) /\ Lookahead(t, 0, q + 1)}}))

\* the groups read at d1, d2 and m, added to those of the rest r
WithDatesAndAmount(t, d1, d2, m, r) ==
  IF r.ok
  THEN [ok |-> TRUE, end |-> r.end,
        transaction_date |-> <<t[d1]>>,
        notification_date |-> <<t[d2]>>,
        amount_range |-> SubSeq(t, m, m + 4),
        filing_status |-> r.filing_status,
        caps |-> r.caps]
  ELSE NoMatch

\* the transaction date at d1, the notification date at d2, the amount
\* range at m, the filing status marker F\sS:\s at f, and the rest
DatesAmountStatus(t, d1, d2, m, f) ==
  IF /\ DatePattern(At(t, d1))
     /\ DatePattern(At(t, d2))
     /\ MonetaryAmountPattern(At(t, m))
     /\ IsWs(At(t, m + 1)) /\ At(t, m + 2) = "-" /\ IsWs(At(t, m + 3))
     /\ MonetaryAmountPattern(At(t, m + 4))
     /\ At(t, f) = "F" /\ IsWs(At(t, f + 1)) /\ At(t, f + 2) = "S:" /\ IsWs(At(t, f + 3))
  THEN WithDatesAndAmount(t, d1, d2, m, FilingStatusText(t, f + 4))
  ELSE NoMatch

\* From the end e of the type group: both dates, the amount range, the
\* filing status and the rest, each after \s*.
AfterType(t, e) ==
  DatesAmountStatus(t, WsRunEnd(t, e),
                    WsRunEnd(t, WsRunEnd(t, e) + 1),
                    WsRunEnd(t, WsRunEnd(t, WsRunEnd(t, e) + 1) + 1),
                    WsRunEnd(t, WsRunEnd(t, WsRunEnd(t, WsRunEnd(t, e) + 1) + 1) + 5))

PartialAt(t, p) == At(t, p) = "(" /\ At(t, p + 1) = "partial" /\ At(t, p + 2) = ")"

RECURSIVE ParseSaleEnds(_, _, _)
\* parse.py: S\s*(?:\(partial\))? -- the ends of the group, \s* ending at r,
\* the longest run first, each with (partial) and then without
ParseSaleEnds(t, lo, r) ==
  IF r < lo THEN <<>>
  ELSE (IF PartialAt(t, r) THEN <<r + 3>> ELSE <<>>) \o <<r>> \o ParseSaleEnds(t, lo, r - 1)

\* The ends of the type group starting at a, in the order the engine tries
\* them.  models.py: P | S(?:\s*\(partial\))?   parse.py: P | S\s*(?:\(partial\))?
TypeEnds(t, pattern, a) ==
  IF At(t, a) = "P" THEN <<a + 1>>
  ELSE IF At(t, a) = "S"
       THEN IF pattern = "models"
            THEN (IF PartialAt(t, WsRunEnd(t, a + 1)) THEN <<WsRunEnd(t, a + 1) + 3>> ELSE <<>>)
                   \o <<a + 1>>
            ELSE ParseSaleEnds(t, a + 1, WsRunEnd(t, a + 1))
       ELSE <<>>

\* the type group from a under the first of its ends with which the rest
\* matches; rests[i] is what follows ends[i]
FirstWorkingEnd(t, a, ends, rests) ==
  LET good == {i \in 1..Len(ends) : rests[i].ok}
  IN IF good = {} THEN NoMatch
     ELSE [type |-> SubSeq(t, a, ends[Min(good)] - 1)] @@ rests[Min(good)]

TypeAndRest(t, a, ends) ==
  FirstWorkingEnd(t, a, ends, [i \in 1..Len(ends) |-> AfterType(t, ends[i])])

\* From the end of the asset group: \s*(?P<type>...) and the rest, under the
\* first end of the type group with which the rest matches
AfterAsset(t, pattern, p) ==
  TypeAndRest(t, WsRunEnd(t, p), TypeEnds(t, pattern, WsRunEnd(t, p)))

\* The asset group starts at a0 (after \s*, the longest run first), its
\* .*?\[ ends at the nearest "[" at i, its .*?\] at the nearest "]" at the
\* close q after which the rest matches; whether the rest matches after q
\* does not depend on a0 and i.
AssetAndRest(t, s, closes) ==
  LET opens == {i \in s..Len(t) : t[i] = "[" /\ \E c \in closes : c.q > i}
      starts == {a0 \in s..WsRunEnd(t, s) : \E i \in opens : i >= a0}
  IN IF starts = {} THEN NoMatch
     ELSE LET a0 == Max(starts)
              i == Min({o \in opens : o >= a0})
              j == Min({c.q : c \in {c \in closes : c.q > i}})
              r == (CHOOSE c \in closes : c.q = j).rest
          IN [ok |-> TRUE, start |-> s, end |-> r.end,
              asset |-> SubSeq(t, a0, j), type |-> r.type,
              transaction_date |-> r.transaction_date,
              notification_date |-> r.notification_date,
              amount_range |-> r.amount_range,
              filing_status |-> r.filing_status,
              subholding_of |-> r.caps[1], comment |-> r.caps[2], description |-> r.caps[3],
              group |-> SubSeq(t, s, r.end - 1)]

\* pattern.match at position s: a re.Match, its groups by name.
\*   \s*(?P<asset>.*?\[.*?\]) ...
MatchAt(t, pattern, s) ==
  AssetAndRest(t, s,
               Working({[q |-> j, rest |-> AfterAsset(t, pattern, j + 1)] :
                          j \in {j \in s..Len(t) : t[j] = "]"}}))

RECURSIVE finditer(_, _, _)
\* the match m, if it is one, and the matches after it
MatchAndLater(t, pattern, m) ==
  IF m.ok THEN <<m>> \o finditer(t, pattern, m.end) ELSE <<>>

\* list(pattern.finditer(t)), scanning from s: leftmost, non-overlapping.
\* The engine tries every later start after a failure at s; none of them can
\* match, because the pattern begins \s*.*? with DOTALL: a match starting
\* after s is also a match from s, its asset group reaching back to s.
finditer(t, pattern, s) == MatchAndLater(t, pattern, MatchAt(t, pattern, s))

\* ------------------------------------------------ models.py: results

\* Result(success, message, data); a message is a string, here its pieces
Result(success, message, data) == [success |-> success, message |-> message, data |-> data]

RECURSIVE Flatten(_)
\* the characters of a text
Flatten(g) == IF g = <<>> THEN <<>> ELSE CharsOf(Head(g)) \o Flatten(Tail(g))

\* ------------------------------------------------------------- Asset

\* Asset.GROUP_PATTERN.search(g):
\*   (?P<name>.*?)\s(?:\((?P<ticker>.*)\)\s)?\[(?P<type>.*?)\]
\* The name ends before the whitespace at w; there the ticker group is
\* tried first, its .* ending before the last ")" at c that is followed by
\* whitespace, "[" and a later "]"; the type ends before the nearest "]".
TickerCloses(g, w) ==
  IF At(g, w + 1) # "(" THEN {}
  ELSE {c \in (w + 2)..Len(g) :
          /\ g[c] = ")" /\ IsWs(At(g, c + 1)) /\ At(g, c + 2) = "["
          /\ \E j \in (c + 3)..Len(g) : g[j] = "]"}

NameEnds(g, st) ==
  {w \in st..Len(g) :
     /\ IsWs(g[w])
     /\ \/ TickerCloses(g, w) # {}
        \/ At(g, w + 1) = "[" /\ \E j \in (w + 2)..Len(g) : g[j] = "]"}

AssetSearch(g) ==
  LET starts == {st \in 1..(Len(g) + 1) : NameEnds(g, st) # {}}
  IN IF starts = {} THEN NoMatch
     ELSE LET st == Min(starts)
              w == Min(NameEnds(g, st))
              cs == TickerCloses(g, w)
              open == IF cs # {} THEN Max(cs) + 2 ELSE w + 1
              close == Min({j \in (open + 1)..Len(g) : g[j] = "]"})
          IN [ok |-> TRUE,
              name |-> SubSeq(g, st, w - 1),
              ticker |-> IF cs # {} THEN Some(SubSeq(g, w + 2, Max(cs) - 1)) ELSE None,
              type |-> SubSeq(g, open + 1, close - 1)]

\* an asset that never has a ticker
Asset_from_match_no_ticker(g) ==
  LET m == AssetSearch(g)
  IN IF ~m.ok
     THEN Result(FALSE,
                 <<"Asset attributes could not be extracted from asset pattern match '">>
                   \o g \o <<"'">>,
                 None)
     ELSE Result(TRUE, <<>>, Some([name |-> m.name, type |-> m.type, ticker |-> None]))

Asset_from_match(g) ==
  LET m == AssetSearch(g)
  IN IF ~m.ok
     THEN Result(FALSE,
                 <<"Asset attributes could not be extracted from asset pattern match '">>
                   \o g \o <<"'">>,
                 None)
     ELSE Result(TRUE, <<>>, Some([name |-> m.name, type |-> m.type, ticker |-> m.ticker]))

\* ------------------------------------------------------ FilingStatus

\* a failure that carries no message
FilingStatus_from_match_silent(g) ==
  IF g = <<"New">>
  THEN Result(TRUE, <<>>, Some("NEW"))
  ELSE Result(FALSE, <<>>, None)

FilingStatus_from_match(g) ==
  IF g = <<"New">>
  THEN Result(TRUE, <<>>, Some("NEW"))
  ELSE Result(FALSE, <<"Filing status '">> \o g \o <<"' not recognized">>, None)

\* --------------------------------------------------- TransactionType

TransactionType_from_match_lenient(g) ==
  IF g = <<"P">> THEN Result(TRUE, <<>>, Some("PURCHASE"))
  ELSE IF g = <<"S">> THEN Result(TRUE, <<>>, Some("SALE"))
  ELSE IF Remove(g, SP) = <<"S", "(", "partial", ")">> THEN Result(TRUE, <<>>, Some("SALE_PARTIAL"))
  ELSE Result(FALSE, <<"Transaction type '">> \o g \o <<"' not recognized">>, None)

TransactionType_from_match(g) ==
  IF g = <<"P">> THEN Result(TRUE, <<>>, Some("PURCHASE"))
  ELSE IF g = <<"S">> THEN Result(TRUE, <<>>, Some("SALE"))
  ELSE IF g = <<"S", SP, "(", "partial", ")">> THEN Result(TRUE, <<>>, Some("SALE_PARTIAL"))
  ELSE Result(FALSE, <<"Transaction type '">> \o g \o <<"' not recognized">>, None)

\* -------------------------------------------------------------- Date

IsLeap(y) == y % 4 = 0 /\ (y % 100 # 0 \/ y % 400 = 0)
DaysInMonth(y, m) ==
  IF m = 2 THEN (IF IsLeap(y) THEN 29 ELSE 28)
  ELSE IF m \in {4, 6, 9, 11} THEN 30 ELSE 31

\* datetime.strptime(g, "%m/%d/%Y").date(): the date, or NoMatch where it
\* raises ValueError.  %m is 1[0-2]|0[1-9]|[1-9], %d is
\* 3[01]|[12]\d|0[1-9]|[1-9], %Y is \d\d\d\d; the whole string must match,
\* and the day must exist in the month.
strptime(cs) ==
  LET shapes == {ab \in (1..2) \X (1..2) :
                   /\ Len(cs) = ab[1] + ab[2] + 6
                   /\ AllDigits(SubSeq(cs, 1, ab[1]))
                   /\ cs[ab[1] + 1] = "/"
                   /\ AllDigits(SubSeq(cs, ab[1] + 2, ab[1] + ab[2] + 1))
                   /\ cs[ab[1] + ab[2] + 2] = "/"
                   /\ AllDigits(SubSeq(cs, ab[1] + ab[2] + 3, ab[1] + ab[2] + 6))}
  IN IF shapes = {} THEN NoMatch
     ELSE LET ab == CHOOSE s \in shapes : TRUE
              month == int(SubSeq(cs, 1, ab[1]))
              day == int(SubSeq(cs, ab[1] + 2, ab[1] + ab[2] + 1))
              year == int(SubSeq(cs, ab[1] + ab[2] + 3, ab[1] + ab[2] + 6))
          IN IF /\ month \in 1..12
                /\ day \in 1..31
                /\ year >= 1
                /\ day <= DaysInMonth(year, month)
             THEN [ok |-> TRUE, year |-> year, month |-> month, day |-> day]
             ELSE NoMatch

Date_from_match(g) ==
  LET d == strptime(Flatten(g))
  IN IF d.ok
     THEN Result(TRUE, <<>>, Some([year |-> d.year, month |-> d.month, day |-> d.day]))
     ELSE Result(FALSE, <<"Failed to create date from 'g'">>, None)

\* Date.from_date: Date(d.year, d.month, d.day)
Date_from_date(d) == [year |-> d.year, month |-> d.month, day |-> d.day]

DigitChar == <<"0", "1", "2", "3", "4", "5", "6", "7", "8", "9">>

RECURSIVE Decimal(_)
\* the decimal digits of a natural number, without leading zeros
Decimal(n) == IF n < 10 THEN <<DigitChar[n + 1]>> ELSE Decimal(n \div 10) \o <<DigitChar[(n % 10) + 1]>>

\* a run of digits filled with zeros on the left to a width
zfill(cs, width) == [i \in 1..(width - Len(cs)) |-> "0"] \o cs

\* Date.format: self.strftime("%m/%d/%Y"), the strings the platform's
\* strftime can give.  %m and %d are two digits; %Y is the year in decimal,
\* which the C library fills to four digits or not (years under 1000 differ).
Date_format(d) ==
  {zfill(Decimal(d.month), 2) \o <<"/">> \o zfill(Decimal(d.day), 2) \o <<"/">> \o year :
     year \in {Decimal(d.year), zfill(Decimal(d.year), 4)}}

\* ------------------------------------------------------- AmountRange

RECURSIVE DigitRunEnd(_, _)
\* the position after the longest run of digits starting at p
DigitRunEnd(cs, p) == IF At(cs, p) \in Digit THEN DigitRunEnd(cs, p + 1) ELSE p

\* AmountRange.GROUP_PATTERN.search(cs): \$(?P<min>\d+)\s-\s\$(?P<max>\d+)
AmountSearch(cs) ==
  LET starts == {i \in 1..Len(cs) :
                   LET e == DigitRunEnd(cs, i + 1)
                   IN /\ cs[i] = "$"
                      /\ e > i + 1
                      /\ IsWs(At(cs, e)) /\ At(cs, e + 1) = "-" /\ IsWs(At(cs, e + 2))
                      /\ At(cs, e + 3) = "$"
                      /\ DigitRunEnd(cs, e + 4) > e + 4}
  IN IF starts = {} THEN NoMatch
     ELSE LET i == Min(starts)
              e == DigitRunEnd(cs, i + 1)
          IN [ok |-> TRUE,
              min |-> SubSeq(cs, i + 1, e - 1),
              max |-> SubSeq(cs, e + 4, DigitRunEnd(cs, e + 4) - 1)]

\* a range refused when its min exceeds its max
AmountRange_from_match_ordered(g) ==
  LET cs == Remove(Flatten(g), ",")
      m == AmountSearch(cs)
  IN IF ~m.ok \/ int(m.min) > int(m.max)
     THEN Result(FALSE,
                 <<"Amount range attributes could not be extracted from amount range pattern match '">>
                   \o cs \o <<"'">>,
                 None)
     ELSE Result(TRUE, <<>>, Some([min |-> int(m.min), max |-> int(m.max)]))

AmountRange_from_match(g) ==
  LET cs == Remove(Flatten(g), ",")
      m == AmountSearch(cs)
  IN IF ~m.ok
     THEN Result(FALSE,
                 <<"Amount range attributes could not be extracted from amount range pattern match '">>
                   \o cs \o <<"'">>,
                 None)
     ELSE Result(TRUE, <<>>, Some([min |-> int(m.min), max |-> int(m.max)]))

\* ------------------------------------------------------- Transaction

\* the type checked before the asset
Transaction_from_match_type_first(m) ==
  LET asset_result == Asset_from_match(m.asset)
      type_result == TransactionType_from_match(m.type)
      transaction_date_result == Date_from_match(m.transaction_date)
      notification_date_result == Date_from_match(m.notification_date)
      amount_result == AmountRange_from_match(m.amount_range)
      filing_status_result == FilingStatus_from_match(m.filing_status)
  IN IF ~type_result.success
     THEN Result(FALSE, <<"Transaction type could not be created: ">>
                          \o type_result.message, None)
     ELSE IF ~asset_result.success
     THEN Result(FALSE, <<"Transaction asset could not be created: ">>
                          \o asset_result.message, None)
     ELSE IF ~transaction_date_result.success
     THEN Result(FALSE, <<"Transaction date could not be created: ">>
                          \o transaction_date_result.message, None)
     ELSE IF ~notification_date_result.success
     THEN Result(FALSE, <<"Notification date could not be created: ">>
                          \o notification_date_result.message, None)
     ELSE IF ~amount_result.success
     THEN Result(FALSE, <<"Transaction amount range could not be created: ">>
                          \o amount_result.message, None)
     ELSE IF ~filing_status_result.success
     THEN Result(FALSE, <<"Transaction filing status could not be created: ">>
                          \o filing_status_result.message, None)
     ELSE Result(TRUE, <<>>,
                 Some([asset |-> asset_result.data[1],
                       type |-> type_result.data[1],
                       transaction_date |-> transaction_date_result.data[1],
                       notification_date |-> notification_date_result.data[1],
                       amount |-> amount_result.data[1],
                       filing_status |-> filing_status_result.data[1],
                       subholding_of |-> m.subholding_of,
                       description |-> m.description,
                       comment |-> m.comment,
                       raw_text |-> m.group]))

Transaction_from_match_stripped(m) ==
  LET asset_result == Asset_from_match(m.asset)
      type_result == TransactionType_from_match(m.type)
      transaction_date_result == Date_from_match(m.transaction_date)
      notification_date_result == Date_from_match(m.notification_date)
      amount_result == AmountRange_from_match(m.amount_range)
      filing_status_result == FilingStatus_from_match(m.filing_status)
  IN IF ~asset_result.success
     THEN Result(FALSE, <<"Transaction asset could not be created: ">>
                          \o asset_result.message, None)
     ELSE IF ~type_result.success
     THEN Result(FALSE, <<"Transaction type could not be created: ">>
                          \o type_result.message, None)
     ELSE IF ~transaction_date_result.success
     THEN Result(FALSE, <<"Transaction date could not be created: ">>
                          \o transaction_date_result.message, None)
     ELSE IF ~notification_date_result.success
     THEN Result(FALSE, <<"Notification date could not be created: ">>
                          \o notification_date_result.message, None)
     ELSE IF ~amount_result.success
     THEN Result(FALSE, <<"Transaction amount range could not be created: ">>
                          \o amount_result.message, None)
     ELSE IF ~filing_status_result.success
     THEN Result(FALSE, <<"Transaction filing status could not be created: ">>
                          \o filing_status_result.message, None)
     ELSE Result(TRUE, <<>>,
                 Some([asset |-> asset_result.data[1],
                       type |-> type_result.data[1],
                       transaction_date |-> transaction_date_result.data[1],
                       notification_date |-> notification_date_result.data[1],
                       amount |-> amount_result.data[1],
                       filing_status |-> filing_status_result.data[1],
                       subholding_of |-> m.subholding_of,
                       description |-> m.description,
                       comment |-> m.comment,
                       raw_text |-> strip(m.group)]))

Transaction_from_match(m) ==
  LET asset_result == Asset_from_match(m.asset)
      type_result == TransactionType_from_match(m.type)
      transaction_date_result == Date_from_match(m.transaction_date)
      notification_date_result == Date_from_match(m.notification_date)
      amount_result == AmountRange_from_match(m.amount_range)
      filing_status_result == FilingStatus_from_match(m.filing_status)
  IN IF ~asset_result.success
     THEN Result(FALSE, <<"Transaction asset could not be created: ">>
                          \o asset_result.message, None)
     ELSE IF ~type_result.success
     THEN Result(FALSE, <<"Transaction type could not be created: ">>
                          \o type_result.message, None)
     ELSE IF ~transaction_date_result.success
     THEN Result(FALSE, <<"Transaction date could not be created: ">>
                          \o transaction_date_result.message, None)
     ELSE IF ~notification_date_result.success
     THEN Result(FALSE, <<"Notification date could not be created: ">>
                          \o notification_date_result.message, None)
     ELSE IF ~amount_result.success
     THEN Result(FALSE, <<"Transaction amount range could not be created: ">>
                          \o amount_result.message, None)
     ELSE IF ~filing_status_result.success
     THEN Result(FALSE, <<"Transaction filing status could not be created: ">>
                          \o filing_status_result.message, None)
     ELSE Result(TRUE, <<>>,
                 Some([asset |-> asset_result.data[1],
                       type |-> type_result.data[1],
                       transaction_date |-> transaction_date_result.data[1],
                       notification_date |-> notification_date_result.data[1],
                       amount |-> amount_result.data[1],
                       filing_status |-> filing_status_result.data[1],
                       subholding_of |-> m.subholding_of,
                       description |-> m.description,
                       comment |-> m.comment,
                       raw_text |-> m.group]))

\* ------------------------------------------------------ Transactions

\* The locals of Transactions.from_transactions_block at its return.
locals_of(ms, rs) ==
  [ms |-> ms, rs |-> rs, failures |-> SelectSeq(rs, LAMBDA r : ~r.success)]

from_matches(ms) == locals_of(ms, [i \in 1..Len(ms) |-> Transaction_from_match(ms[i])])

from_transactions_block_locals(b) == from_matches(finditer(b, "models", 1))

\* only the first failure reported
Transactions_from_locals_first_failure(l) ==
  IF l.ms = <<>>
  THEN Result(FALSE, <<"No transactions matches were found in the transactions block">>, None)
  ELSE IF l.failures # <<>>
  THEN Result(FALSE,
              <<"Failure to construct transactions from block:", NL>> \o l.failures[1].message,
              None)
  ELSE Result(TRUE, <<>>, Some([i \in 1..Len(l.rs) |-> l.rs[i].data[1]]))

Transactions_from_locals(l) ==
  IF l.ms = <<>>
  THEN Result(FALSE, <<"No transactions matches were found in the transactions block">>, None)
  ELSE IF l.failures # <<>>
  THEN Result(FALSE,
              <<"Failure to construct transactions from block:", NL>>
                \o Join([i \in 1..Len(l.failures) |-> l.failures[i].message], <<NL>>),
              None)
  ELSE Result(TRUE, <<>>, Some([i \in 1..Len(l.rs) |-> l.rs[i].data[1]]))

Transactions_from_transactions_block(b) ==
  Transactions_from_locals(from_transactions_block_locals(b))

\* ------------------------------------------------------------ Report

\* FILING_ID_PATTERN.search(t): Filing ID #([\d]+) -- the position of the
\* first match, 0 when there is none
FilingIdSearch(t) ==
  LET found == {i \in 1..Len(t) : t[i] = FILING_ID_PREFIX /\ IsDigits(At(t, i + 1))}
  IN IF found = {} THEN 0 ELSE Min(found)

\* REP_NAME_AND_SIGNING_DATE_PATTERN.search(t):
\*   Signed:\sHon\.\s(?P<rep_name>.+?)\s,\s(?P<signing_date>DATE)
\* from i, the name closed by the whitespace at q
SignatureCloses(t, i) ==
  IF /\ At(t, i) = "Signed:" /\ IsWs(At(t, i + 1)) /\ At(t, i + 2) = "Hon."
     /\ IsWs(At(t, i + 3))
  THEN {q \in (i + 5)..Len(t) :
          /\ IsWs(t[q]) /\ At(t, q + 1) = "," /\ IsWs(At(t, q + 2))
          /\ DatePattern(At(t, q + 3))}
  ELSE {}

SignatureSearch(t) ==
  LET starts == {i \in 1..Len(t) : SignatureCloses(t, i) # {}}
  IN IF starts = {} THEN NoMatch
     ELSE LET i == Min(starts)
              q == Min(SignatureCloses(t, i))
          IN [ok |-> TRUE, rep_name |-> SubSeq(t, i + 4, q - 1), signing_date |-> <<t[q + 3]>>]

\* the signature looked for before the filing ID
Report_from_cleansed_text_signature_first(cleansed_text, transactions) ==
  LET filing_id_match == FilingIdSearch(cleansed_text)
      rep_name_and_signing_date_match == SignatureSearch(cleansed_text)
      sdr == Date_from_match(rep_name_and_signing_date_match.signing_date)
  IN IF ~rep_name_and_signing_date_match.ok
     THEN Result(FALSE,
                 <<"Representative name and signing date could not be found in report">>, None)
     ELSE IF filing_id_match = 0
     THEN Result(FALSE, <<"Filing ID could not be found in report">>, None)
     ELSE IF ~sdr.success
     THEN Result(FALSE, <<"Report signing date could not be created: ">> \o sdr.message, None)
     ELSE Result(TRUE, <<>>,
                 Some([filing_id |-> int(Chars[cleansed_text[filing_id_match + 1]]),
                       representative_name |-> rep_name_and_signing_date_match.rep_name,
                       signed_date |-> sdr.data[1],
                       transactions |-> transactions]))

\* the signature looked for only after the filing ID, as one grammar
Report_from_cleansed_text_sequential(cleansed_text, transactions) ==
  LET filing_id_match == FilingIdSearch(cleansed_text)
      after_filing_id == SubSeq(cleansed_text, filing_id_match + 2, Len(cleansed_text))
      rep_name_and_signing_date_match == SignatureSearch(after_filing_id)
      sdr == Date_from_match(rep_name_and_signing_date_match.signing_date)
  IN IF filing_id_match = 0
     THEN Result(FALSE, <<"Filing ID could not be found in report">>, None)
     ELSE IF ~rep_name_and_signing_date_match.ok
     THEN Result(FALSE,
                 <<"Representative name and signing date could not be found in report">>, None)
     ELSE IF ~sdr.success
     THEN Result(FALSE, <<"Report signing date could not be created: ">> \o sdr.message, None)
     ELSE Result(TRUE, <<>>,
                 Some([filing_id |-> int(Chars[cleansed_text[filing_id_match + 1]]),
                       representative_name |-> rep_name_and_signing_date_match.rep_name,
                       signed_date |-> sdr.data[1],
                       transactions |-> transactions]))

Report_from_cleansed_text(cleansed_text, transactions) ==
  LET filing_id_match == FilingIdSearch(cleansed_text)
      rep_name_and_signing_date_match == SignatureSearch(cleansed_text)
      sdr == Date_from_match(rep_name_and_signing_date_match.signing_date)
  IN IF filing_id_match = 0
     THEN Result(FALSE, <<"Filing ID could not be found in report">>, None)
     ELSE IF ~rep_name_and_signing_date_match.ok
     THEN Result(FALSE,
                 <<"Representative name and signing date could not be found in report">>, None)
     ELSE IF ~sdr.success
     THEN Result(FALSE, <<"Report signing date could not be created: ">> \o sdr.message, None)
     ELSE Result(TRUE, <<>>,
                 Some([filing_id |-> int(Chars[cleansed_text[filing_id_match + 1]]),
                       representative_name |-> rep_name_and_signing_date_match.rep_name,
                       signed_date |-> sdr.data[1],
                       transactions |-> transactions]))

\* ------------------------------------------------ models.py: database
(***************************************************************************)
(* What is written to report.db.  A table is the list of its rows in the   *)
(* order of insertion, a row the tuple of its columns; the first column of *)
(* both tables is the key column (report_id, the transaction's id).  A     *)
(* 32-bit value is kept as its two 16-bit halves <<high, low>>.            *)
(***************************************************************************)

\* the ASCII characters from "-" (45) to "z" (122), in the order of their
\* codes; the backslash (92) and the backquote (96) are left out
ascii ==
  <<"-", ".", "/", "0", "1", "2", "3", "4", "5", "6", "7", "8", "9",
    ":", ";", "<", "=", ">", "?", "@", "A", "B", "C", "D", "E", "F",
    "G", "H", "I", "J", "K", "L", "M", "N", "O", "P", "Q", "R", "S",
    "T", "U", "V", "W", "X", "Y", "Z", "[", "", "]", "^", "_", "",
    "a", "b", "c", "d", "e", "f", "g", "h", "i", "j", "k", "l", "m",
    "n", "o", "p", "q", "r", "s", "t", "u", "v", "w", "x", "y", "z">>

\* s.encode("utf-8") of a string of these characters: its bytes
encode(s) == [i \in 1..Len(s) |-> 44 + CHOOSE c \in 1..Len(ascii) : ascii[c] = s[i]]

RECURSIVE xor(_, _)
\* a ^ b
xor(a, b) ==
  IF a = 0 THEN b ELSE IF b = 0 THEN a
  ELSE 2 * xor(a \div 2, b \div 2) + ((a + b) % 2)

\* crc = (crc >> 1) ^ 0xEDB88320 if crc & 1 else crc >> 1
crc32_shift(crc) ==
  IF crc[2] % 2 = 1
  THEN <<xor(crc[1] \div 2, 60856), xor((crc[2] \div 2) + (crc[1] % 2) * 32768, 33568)>>
  ELSE <<crc[1] \div 2, (crc[2] \div 2) + (crc[1] % 2) * 32768>>

RECURSIVE crc32_shifts(_, _)
\* for _ in range(k): the register shifted k times
crc32_shifts(crc, k) == IF k = 0 THEN crc ELSE crc32_shifts(crc32_shift(crc), k - 1)

\* zlib's crc_table: entry n is n shifted eight times
crc_table == [n \in 0..255 |-> crc32_shifts(<<0, n>>, 8)]

\* a ^ b of two numbers below 16, and of two numbers below 65536 by their
\* four-bit digits
xor_table == [a \in 0..15 |-> [b \in 0..15 |-> xor(a, b)]]

xor16(a, b) ==
  4096 * xor_table[a \div 4096][b \div 4096]
    + 256 * xor_table[(a \div 256) % 16][(b \div 256) % 16]
    + 16 * xor_table[(a \div 16) % 16][(b \div 16) % 16]
    + xor_table[a % 16][b % 16]

\* the CRC register after one more byte:
\* crc = crc_table[(crc ^ byte) & 0xFF] ^ (crc >> 8)
crc32_byte(crc, byte) ==
  LET entry == crc_table[xor16(crc[2] % 256, byte)]
  IN <<xor16(crc[1] \div 256, entry[1]),
       xor16((crc[1] % 256) * 256 + (crc[2] \div 256), entry[2])>>

RECURSIVE crc32_update(_, _, _, _)
\* the CRC register after the bytes lo..hi, taken in order (the register
\* is read before a byte is taken, so that it is a value by then)
crc32_update(crc, bytes, lo, hi) ==
  IF lo > hi \/ crc = <<>> THEN crc
  ELSE IF lo = hi THEN crc32_byte(crc, bytes[lo])
  ELSE crc32_update(crc32_update(crc, bytes, lo, (lo + hi) \div 2),
                    bytes, ((lo + hi) \div 2) + 1, hi)

\* zlib.crc32(bytes) & 0xFFFFFFFF
zlib_crc32(bytes) ==
  LET crc == crc32_update(<<65535, 65535>>, bytes, 1, Len(bytes))
  IN <<xor16(crc[1], 65535), xor16(crc[2], 65535)>>

\* str(t.type), the name of the Enum member, and t.type.value
TransactionType_str ==
  ("PURCHASE" :> <<"T", "r", "a", "n", "s", "a", "c", "t", "i", "o", "n", "T", "y", "p", "e", ".", "P", "U", "R", "C", "H", "A", "S", "E">>)
    @@ ("SALE" :> <<"T", "r", "a", "n", "s", "a", "c", "t", "i", "o", "n", "T", "y", "p", "e", ".", "S", "A", "L", "E">>)
    @@ ("SALE_PARTIAL" :> <<"T", "r", "a", "n", "s", "a", "c", "t", "i", "o", "n", "T", "y", "p", "e", ".", "S", "A", "L", "E", "_", "P", "A", "R", "T", "I", "A", "L">>)
TransactionType_value ==
  ("PURCHASE" :> "purchase") @@ ("SALE" :> "sale") @@ ("SALE_PARTIAL" :> "partial sale")

\* str(d) of a date: YYYY-MM-DD
Date_str(d) ==
  zfill(Decimal(d.year), 4) \o <<"-">> \o zfill(Decimal(d.month), 2)
    \o <<"-">> \o zfill(Decimal(d.day), 2)

\* d.format(), for a year of four digits
strftime(d) == CHOOSE s \in Date_format(d) : TRUE

\* Date.today(): the day of the run
today == [year |-> 2026, month |-> 11, day |-> 6]

\* one row of Transactions.to_db_tuples with the notification date hashed in
\* the place of the transaction date
transaction_row_notification_date(filing_id, t) ==
  <<zlib_crc32(encode(Decimal(filing_id) \o <<"-">> \o Flatten(t.asset.name) \o <<"-">>
                        \o TransactionType_str[t.type] \o <<"-">> \o Date_str(t.notification_date))),
    filing_id, t.asset.name, t.asset.type, t.asset.ticker, "new",
    t.subholding_of, t.description, t.comment, TransactionType_value[t.type],
    strftime(t.transaction_date), strftime(t.notification_date),
    t.amount.min, t.amount.max, t.raw_text, strftime(today)>>

\* one tuple of Transactions.to_db_tuples: the id is the CRC of
\* f"{filing_id}-{t.asset.name}-{t.type}-{t.transaction_date}"
transaction_row(filing_id, t) ==
  <<zlib_crc32(encode(Decimal(filing_id) \o <<"-">> \o Flatten(t.asset.name) \o <<"-">>
                        \o TransactionType_str[t.type] \o <<"-">> \o Date_str(t.transaction_date))),
    filing_id, t.asset.name, t.asset.type, t.asset.ticker, "new",
    t.subholding_of, t.description, t.comment, TransactionType_value[t.type],
    strftime(t.transaction_date), strftime(t.notification_date),
    t.amount.min, t.amount.max, t.raw_text, strftime(today)>>

RECURSIVE flattened(_)
\* [t for rts in nested for t in rts]
flattened(nested) == IF nested = <<>> THEN <<>> ELSE Head(nested) \o flattened(Tail(nested))

\* Transactions.to_db_tuples(ts, filing_ids)
Transactions_to_db_tuples(ts, filing_ids) ==
  IF Len(ts) # Len(filing_ids) THEN <<>>
  ELSE flattened([r \in 1..Len(ts) |->
                    [i \in 1..Len(ts[r]) |-> transaction_row(filing_ids[r], ts[r][i])]])

\* Reports.to_db_tuples(rs)
Reports_to_db_tuples(rs) ==
  [i \in 1..Len(rs) |->
     <<rs[i].filing_id, rs[i].representative_name, strftime(rs[i].signed_date), strftime(today)>>]

(***************************************************************************)
(* The tables.  A table is the sequence of its rows in insertion order, a  *)
(* row the tuple of its columns, the first column its id.  The create      *)
(* table statements are in no file of the repository, so what the first    *)
(* column is declared as is left open: an ordinary column, a primary key   *)
(* (an insert of a stored id raises), or a primary key whose conflicts are *)
(* ignored (an insert of a stored id does nothing).                        *)
(***************************************************************************)
\* a call either raises or returns a value
Raised == [raised |-> TRUE]
Returned(v) == [raised |-> FALSE, value |-> v]

Schemas == {"plain", "unique", "ignore"}

EmptyDatabase(schema) == [schema |-> schema, reports |-> <<>>, transactions |-> <<>>]

\* no connection is open
NoDatabase == EmptyDatabase("none")

\* DBWrite(actual, expected) of db.py
DBWrite(actual, expected) == [actual |-> actual, expected |-> expected]

\* the ids stored in a table
Ids(table) == {table[i][1] : i \in 1..Len(table)}

RECURSIVE executemany(_, _, _, _)
\* cur.executemany("insert into ... values (...)", rows): the rows go in one
\* after the other; a row that raises ends the statement and leaves the rows
\* before it in the table; cur.rowcount counts the rows inserted
executemany(schema, table, rows, rowcount) ==
  IF rows = <<>> THEN [raised |-> FALSE, table |-> table, rowcount |-> rowcount]
  ELSE IF schema = "plain" \/ Head(rows)[1] \notin Ids(table)
  THEN executemany(schema, Append(table, Head(rows)), Tail(rows), rowcount + 1)
  ELSE IF schema = "ignore"
  THEN executemany(schema, table, Tail(rows), rowcount)
  ELSE [raised |-> TRUE, table |-> table, rowcount |-> rowcount]

\* Report._discard_present_reports(cur, rs): the reports of rs whose
\* filing_id the select does not find in the reports table
discard_present_reports(cur, rs) ==
  SelectSeq(rs, LAMBDA r : r.filing_id \notin Ids(cur.reports))

\* what a _batch_write_to_... method leaves: the tables as the cursor sees
\* them and r, the DBWriteResult returned or the exception raised
\* Report._batch_write_to_reports_table(cur, rs)
batch_write_to_reports_table(cur, rs) ==
  LET reports_data == Reports_to_db_tuples(rs)
      done == executemany(cur.schema, cur.reports, reports_data, 0)
      written == [cur EXCEPT !.reports = done.table]
      success == done.rowcount = Len(rs)
  IN IF reports_data = <<>>
     THEN [cur |-> cur, r |-> Raised]
     ELSE IF done.raised
     THEN [cur |-> written,
           r |-> Returned(Result(FALSE, <<"Failed to write reports to database: ">>, None))]
     ELSE [cur |-> written,
           r |-> Returned(Result(success,
                                 IF success THEN <<>>
                                 ELSE <<"Rows affected do not match calculated count of reports to write">>,
                                 Some(DBWrite(done.rowcount, Len(rs)))))]

\* Report._batch_write_to_transactions_table(cur, rs)
batch_write_to_transactions_table(cur, rs) ==
  LET transactions_data ==
        Transactions_to_db_tuples([i \in 1..Len(rs) |-> rs[i].transactions],
                                  [i \in 1..Len(rs) |-> rs[i].filing_id])
      done == executemany(cur.schema, cur.transactions, transactions_data, 0)
      written == [cur EXCEPT !.transactions = done.table]
      success == done.rowcount = Len(transactions_data)
  IN IF transactions_data = <<>>
     THEN [cur |-> cur, r |-> Raised]
     ELSE IF done.raised
     THEN [cur |-> written,
           r |-> Returned(Result(FALSE, <<"Failed to write transactions to database: ">>, None))]
     ELSE [cur |-> written,
           r |-> Returned(Result(success,
                                 IF success THEN <<>>
                                 ELSE <<"Rows affected do not match calculated count of transactions to write">>,
                                 Some(DBWrite(done.rowcount, Len(transactions_data)))))]

\* db_write_many going on to the transactions whatever the report write
\* returned
db_write_many_unchecked(cur, rs) ==
  LET reports_to_write == discard_present_reports(cur, rs)
      r == batch_write_to_reports_table(cur, reports_to_write)
  IN IF r.r.raised THEN r
     ELSE batch_write_to_transactions_table(r.cur, reports_to_write)

\* Report.db_write_many(cur, rs)
db_write_many(cur, rs) ==
  LET reports_to_write == discard_present_reports(cur, rs)
      r == batch_write_to_reports_table(cur, reports_to_write)
  IN IF r.r.raised \/ ~r.r.value.success THEN r
     ELSE batch_write_to_transactions_table(r.cur, reports_to_write)

\* ----------------------------------------------------------- search.py
(***************************************************************************)
(* LinkExtractor, the HTMLParser subclass that collects the links of the   *)
(* search result table.  feed() calls handle_starttag, handle_endtag and   *)
(* handle_data in the order of the markup; the extractor is modelled by    *)
(* its fields and the three handlers.                                      *)
(***************************************************************************)

\* LinkExtractor.__init__
LinkExtractor ==
  [links |-> <<>>, in_tr |-> FALSE, in_link_cell |-> FALSE, in_filing_cell |-> FALSE,
   current_link |-> None, current_filing_type |-> None]

\* dict(attrs).get(key): the value of the last pair of that name, or None
\* next(value for attr, value in attrs if attr == key): the first, or None
AttrsGet(attrs, key, first) ==
  LET at == {i \in 1..Len(attrs) : attrs[i][1] = key}
  IN IF at = {} THEN None
     ELSE Some(attrs[CHOOSE i \in at : \A j \in at : IF first THEN i <= j ELSE j <= i][2])

\* LinkExtractor.handle_starttag(tag, attrs)
handle_starttag(self, tag, attrs) ==
  IF tag = "tr"
  THEN [self EXCEPT !.in_tr = TRUE, !.current_link = None, !.current_filing_type = None]
  ELSE IF tag = "td"
  THEN IF self.in_tr /\ AttrsGet(attrs, "data-label", FALSE) = Some("Name")
       THEN [self EXCEPT !.in_link_cell = TRUE]
       ELSE IF self.in_tr /\ AttrsGet(attrs, "data-label", FALSE) = Some("Filing")
       THEN [self EXCEPT !.in_filing_cell = TRUE]
       ELSE self
  ELSE IF tag = "a" /\ self.in_link_cell /\ AttrsGet(attrs, "href", TRUE) # None
  THEN [self EXCEPT !.current_link = AttrsGet(attrs, "href", TRUE)]
  ELSE self

\* LinkExtractor.handle_endtag(tag)
handle_endtag(self, tag) ==
  IF tag = "td"
  THEN [self EXCEPT !.in_link_cell = FALSE, !.in_filing_cell = FALSE]
  ELSE IF tag = "tr" /\ self.in_tr
  THEN [self EXCEPT
          !.in_tr = FALSE,
          !.links = IF self.current_link \notin {None, Some("")}
                       /\ self.current_filing_type = Some(<<"PTR Original">>)
                    THEN Append(@, self.current_link[1]) ELSE @,
          !.current_link = None,
          !.current_filing_type = None]
  ELSE self

\* LinkExtractor.handle_data(data)
handle_data(self, data) ==
  IF self.in_filing_cell /\ strip(data) # <<>>
  THEN [self EXCEPT !.current_filing_type = Some(strip(data))]
  ELSE self

\* ------------------------------------------------- parse.py: classes
(***************************************************************************)
(* parse.py keeps its own copies of the field classes; they raise where    *)
(* the models.py ones return a failure Result.  A call either raises or    *)
(* returns a value.                                                        *)
(***************************************************************************)

\* Asset.from_group: m is None when the pattern is not found, and
\* m.group raises AttributeError
Asset_from_group(g) ==
  LET m == AssetSearch(g)
  IN IF ~m.ok THEN Raised
     ELSE Returned([name |-> m.name, type |-> m.type, ticker |-> m.ticker])

\* FilingStatus.from_group: "New" in g
FilingStatus_from_group(g) ==
  IF \E i \in 1..Len(g) : g[i] = "New" THEN Returned("NEW") ELSE Raised

TransactionType_from_group(g) ==
  IF g = <<"P">> THEN Returned("PURCHASE")
  ELSE IF g = <<"S">> THEN Returned("SALE")
  ELSE IF g = <<"S", SP, "(", "partial", ")">> THEN Returned("SALE_PARTIAL")
  ELSE Raised

Date_from_group(g) ==
  LET d == strptime(Flatten(g))
  IN IF d.ok THEN Returned([year |-> d.year, month |-> d.month, day |-> d.day]) ELSE Raised

\* AmountRange.from_group: m.groups() raises AttributeError on no match
AmountRange_from_group(g) ==
  LET m == AmountSearch(Remove(Flatten(g), ","))
  IN IF ~m.ok THEN Raised ELSE Returned([min |-> int(m.min), max |-> int(m.max)])

\* the Transaction of a match, its groups parsed
parse_Transaction_of_groups(m, asset, type, transaction_date, notification_date, amount, filing_status) ==
  IF \/ asset.raised \/ type.raised \/ transaction_date.raised
     \/ notification_date.raised \/ amount.raised \/ filing_status.raised
  THEN Raised
  ELSE Returned([asset |-> asset.value,
                 type |-> type.value,
                 transaction_date |-> transaction_date.value,
                 notification_date |-> notification_date.value,
                 amount |-> amount.value,
                 filing_status |-> filing_status.value,
                 subholding_of |-> m.subholding_of,
                 description |-> m.description,
                 comment |-> m.comment,
                 raw_text |-> m.group])

parse_Transaction_from_match(m) ==
  parse_Transaction_of_groups(m,
                              Asset_from_group(m.asset),
                              TransactionType_from_group(m.type),
                              Date_from_group(m.transaction_date),
                              Date_from_group(m.notification_date),
                              AmountRange_from_group(m.amount_range),
                              FilingStatus_from_group(m.filing_status))

parse_Report_from_cleansed_text(raw_text, transactions) ==
  LET filing_id_match == FilingIdSearch(raw_text)
      rep_name_and_signing_date_match == SignatureSearch(raw_text)
      signed_date == Date_from_group(rep_name_and_signing_date_match.signing_date)
  IN IF filing_id_match = 0 THEN Raised
     ELSE IF ~rep_name_and_signing_date_match.ok THEN Raised
     ELSE IF signed_date.raised THEN Raised
     ELSE Returned([filing_id |-> int(Chars[raw_text[filing_id_match + 1]]),
                    representative_name |-> rep_name_and_signing_date_match.rep_name,
                    signed_date |-> signed_date.value,
                    transactions |-> transactions])

\* the list the comprehension leaves, unless one of its elements raised
parse_transactions_made(outcomes) ==
  IF \E i \in 1..Len(outcomes) : outcomes[i].raised THEN Raised
  ELSE Returned([i \in 1..Len(outcomes) |-> outcomes[i].value])

\* the list comprehension [Transaction.from_match(m) for m in matches]
parse_transactions(transaction_matches) ==
  parse_transactions_made([i \in 1..Len(transaction_matches) |->
                             parse_Transaction_from_match(transaction_matches[i])])

\* ------------------------------------------------- parse.py: parse_report
VARIABLES
  page_texts,          \* what the document's provider yields, one text per page
  pc,                  \* position inside parse_report
  cleansed_text,       \* parse_report's local of that name
  transactions_block,  \* parse_report's local of that name
  transaction_matches, \* parse_report's local of that name
  ts,                  \* parse_report's local of that name
  ret,                 \* what parse_report did on leaving: nothing yet, a value, a raise
  ran,                 \* the stages parse_report has entered, in order
  locals,              \* locals of the last Transactions.from_transactions_block call
  call,                \* the last call of a models.py constructor: function, argument, result
  ps,                  \* daily.py parse_reports: the documents of the report directory
  parse_results,       \* daily.py: the list parse_reports builds (rs), one entry per parsed file
  daily,               \* position inside daily.py's main
  success_results,     \* write_new_reports_to_db's local of that name, None before it is built
  logged,              \* the results log_parse_results has printed, in order
  database,            \* the committed reports and transactions tables, and their schema
  db_write,            \* the last write_new_reports_to_db: the tables before it, what db_write_many did
  runs,                \* the runs of daily.py's main against the database so far
  parser,              \* search.py: the fields of a LinkExtractor
  fed                  \* search.py: the events the LinkExtractor has handled, in order

\* the document and the frame of parse_report on it
parse_report_vars ==
  <<page_texts, pc, cleansed_text, transactions_block, transaction_matches, ts, ret, ran>>

\* the frame of daily.py's main
daily_vars == <<ps, parse_results, daily, success_results, logged>>

\* the database of daily.py's connection
db_vars == <<database, db_write, runs>>

\* the LinkExtractor of search.py
search_vars == <<parser, fed>>

vars == <<parse_report_vars, locals, call, daily_vars, db_vars, search_vars>>

NotReturned == [kind |-> "running"]
ReturnNone == [kind |-> "None"]
ReturnReport(r) == [kind |-> "Report", report |-> r]
Raise == [kind |-> "raise"]

NoCall == [fn |-> "none"]
NoLocals == [ms |-> <<>>, rs |-> <<>>, failures |-> <<>>]

\* cleansed_text = extract_cleansed_text(document_provider); if not cleansed_text: return None
ExtractCleansedText ==
  /\ pc = "extract_cleansed_text"
  /\ cleansed_text' = extract_cleansed_text(page_texts)
  /\ ran' = Append(ran, "extract_cleansed_text")
  /\ IF cleansed_text' = <<>>
     THEN pc' = "done" /\ ret' = ReturnNone
     ELSE pc' = "extract_transactions_block" /\ ret' = ret
  /\ UNCHANGED <<page_texts, transactions_block, transaction_matches, ts, locals, call, daily_vars, db_vars, search_vars>>

\* transactions_block = extract_transactions_block(cleansed_text); if not transactions_block: return None
ExtractTransactionsBlock ==
  /\ pc = "extract_transactions_block"
  /\ transactions_block' = extract_transactions_block(cleansed_text)
  /\ ran' = Append(ran, "extract_transactions_block")
  /\ IF transactions_block' = <<>>
     THEN pc' = "done" /\ ret' = ReturnNone
     ELSE pc' = "transactions" /\ ret' = ret
  /\ UNCHANGED <<page_texts, cleansed_text, transaction_matches, ts, locals, call, daily_vars, db_vars, search_vars>>

\* transaction_matches = list(TRANSACTION_PATTERN.finditer(transactions_block))
\* ts = [Transaction.from_match(m) for m in transaction_matches]
ParseTransactions ==
  /\ pc = "transactions"
  /\ ran' = Append(ran, "transactions")
  /\ transaction_matches' = finditer(transactions_block, "parse", 1)
  /\ \E made \in {parse_transactions(transaction_matches')} :
       IF made.raised
       THEN pc' = "done" /\ ret' = Raise /\ ts' = ts
       ELSE pc' = "report" /\ ret' = ret /\ ts' = made.value
  /\ UNCHANGED <<page_texts, cleansed_text, transactions_block, locals, call, daily_vars, db_vars, search_vars>>

\* report = Report.from_cleansed_text(cleansed_text, transactions); return report
AssembleReport ==
  /\ pc = "report"
  /\ ran' = Append(ran, "report")
  /\ LET report == parse_Report_from_cleansed_text(cleansed_text, ts)
     IN ret' = IF report.raised THEN Raise ELSE ReturnReport(report.value)
  /\ pc' = "done"
  /\ UNCHANGED <<page_texts, cleansed_text, transactions_block, transaction_matches, ts, locals, call, daily_vars, db_vars, search_vars>>

\* ------------------------------------------------- models.py: calls
(***************************************************************************)
(* The Result-returning constructors of models.py, applied to the values   *)
(* the document gives rise to: the block is parsed, then any one of its    *)
(* matches or of their groups is handed to a constructor.                  *)
(***************************************************************************)

Called(fn, arg, result) == [fn |-> fn, arg |-> arg, result |-> result]

Stages == {ran[i] : i \in 1..Len(ran)}

\* the block has just been parsed: its matches are there to be handed on
BlockParsed == call # NoCall /\ call.fn = "Transactions.from_transactions_block"

CallTransactionsFromBlock ==
  /\ pc = "done"
  /\ "extract_transactions_block" \in Stages
  /\ call = NoCall
  /\ locals' = from_transactions_block_locals(transactions_block)
  /\ call' = Called("Transactions.from_transactions_block", transactions_block,
                    Transactions_from_locals(locals'))
  /\ UNCHANGED <<parse_report_vars, daily_vars, db_vars, search_vars>>

CallTransactionFromMatch ==
  /\ BlockParsed
  /\ \E i \in 1..Len(locals.ms) :
       call' = Called("Transaction.from_match", locals.ms[i], locals.rs[i])
  /\ UNCHANGED <<parse_report_vars, locals, daily_vars, db_vars, search_vars>>

CallAssetFromMatch ==
  /\ BlockParsed
  /\ \E i \in 1..Len(locals.ms) :
       call' = Called("Asset.from_match", locals.ms[i].asset,
                      Asset_from_match(locals.ms[i].asset))
  /\ UNCHANGED <<parse_report_vars, locals, daily_vars, db_vars, search_vars>>

CallTransactionTypeFromMatch ==
  /\ BlockParsed
  /\ \E i \in 1..Len(locals.ms) :
       call' = Called("TransactionType.from_match", locals.ms[i].type,
                      TransactionType_from_match(locals.ms[i].type))
  /\ UNCHANGED <<parse_report_vars, locals, daily_vars, db_vars, search_vars>>

CallDateFromMatch ==
  /\ BlockParsed
  /\ \E i \in 1..Len(locals.ms) :
       \E g \in {locals.ms[i].transaction_date, locals.ms[i].notification_date} :
          call' = Called("Date.from_match", g, Date_from_match(g))
  /\ UNCHANGED <<parse_report_vars, locals, daily_vars, db_vars, search_vars>>

CallAmountRangeFromMatch ==
  /\ BlockParsed
  /\ \E i \in 1..Len(locals.ms) :
       call' = Called("AmountRange.from_match", locals.ms[i].amount_range,
                      AmountRange_from_match(locals.ms[i].amount_range))
  /\ UNCHANGED <<parse_report_vars, locals, daily_vars, db_vars, search_vars>>

CallFilingStatusFromMatch ==
  /\ BlockParsed
  /\ \E i \in 1..Len(locals.ms) :
       call' = Called("FilingStatus.from_match", locals.ms[i].filing_status,
                      FilingStatus_from_match(locals.ms[i].filing_status))
  /\ UNCHANGED <<parse_report_vars, locals, daily_vars, db_vars, search_vars>>

\* Report.from_cleansed_text on the document's text and the block's
\* transactions (none when the block failed)
CallReportFromCleansedText ==
  /\ BlockParsed
  /\ LET block_result == Transactions_from_locals(locals)
         made == IF block_result.success THEN block_result.data[1] ELSE <<>>
     IN call' = Called("Report.from_cleansed_text", cleansed_text,
                       Report_from_cleansed_text(cleansed_text, made))
  /\ UNCHANGED <<parse_report_vars, locals, daily_vars, db_vars, search_vars>>

\* ------------------------------------------------------- documents
(***************************************************************************)
(* The documents: page texts as the provider yields them, before any       *)
(* cleansing.  A page is lines; a line is a filing ID, the signature, the  *)
(* table header, a table row, the footer, or other text.                   *)
(***************************************************************************)

MaxRows == 3     \* table rows of a document whose rows vary
MaxPages == 3    \* pages of a document whose pages hold no text

Fields == {"asset", "type", "transaction_date", "notification_date", "amount", "filing_status"}

FilingIdLine(digits) == <<FILING_ID_PREFIX, digits>>
SignatureLine == <<"Signed:", SP, "Hon.", SP, "Jane", SP, "Doe", SP, ",", SP, "01/15/2024">>
FooterLine == <<TABLE_FOOTER, SP, "abbreviations">>
OtherLine == <<"Nothing", SP, "to", SP, "report">>

\* A table row.  k.bad is the set of fields written so that the row still
\* matches the transaction pattern but the field's constructor rejects it.
Row(k) ==
  (IF "asset" \in k.bad THEN <<"Amazon.com", "[", "ST", "]">>
   ELSE IF k.ticker THEN <<"Amazon.com", SP, "Inc", SP, "(", "AMZN", ")", SP, "[", "ST", "]">>
   ELSE <<"Vanguard", SP, "Fund", SP, "[", "EF", "]">>)
  \o <<SP>>
  \o (IF "type" \in k.bad THEN <<"S", "(", "partial", ")">>
      ELSE IF k.type = "S (partial)" THEN <<"S", SP, "(", "partial", ")">>
      ELSE <<k.type>>)
  \o <<SP, IF "transaction_date" \in k.bad THEN "13/14/2024" ELSE "03/14/2024">>
  \o <<SP, IF "notification_date" \in k.bad THEN "13/14/2024" ELSE "03/15/2024">>
  \o <<SP>>
  \o (IF "amount" \in k.bad THEN <<"$", SP, "-", SP, "$">>
      ELSE <<"$1,001", SP, "-", SP, "$15,000">>)
  \o <<SP, "F", SP, "S:", SP, IF "filing_status" \in k.bad THEN "Old" ELSE "New">>
  \o (IF k.notes
      THEN <<SP, "S", SP, "O:", SP, "Trust", SP, "C:", SP, "note", SP, "D:", SP, "Sold", SP, "shares">>
      ELSE <<>>)

GoodRow(type, ticker, notes) == [bad |-> {}, type |-> type, ticker |-> ticker, notes |-> notes]
BadRow(bad) == [bad |-> bad, type |-> "P", ticker |-> TRUE, notes |-> FALSE]

RowKinds ==
  {GoodRow("P", TRUE, FALSE), GoodRow("S", FALSE, TRUE), GoodRow("S (partial)", TRUE, FALSE)}
    \cup {BadRow({f}) : f \in Fields}
    \cup {BadRow({"asset", "type"}), BadRow({"transaction_date", "filing_status"}), BadRow(Fields)}

\* the non-empty lines, each on its own line
Lines(ls) == Join(SelectSeq(ls, LAMBDA l : l # <<>>), <<NL>>)

\* A well laid out single-page document: filing ID, header, the rows,
\* footer, signature.
RowDocument(rows) ==
  << Lines(<<FilingIdLine("123456"), <<TABLE_HEADER>>>>
             \o [i \in 1..Len(rows) |-> Row(rows[i])]
             \o <<FooterLine, SignatureLine>>) >>

RowDocuments ==
  {RowDocument(Append(rows, GoodRow("P", TRUE, FALSE))) :
     rows \in UNION {[1..n -> RowKinds] : n \in 1..(MaxRows - 1)}}

\* A two-page document with each part of the layout there or not: what
\* precedes the table (top), the header, the table body, what interrupts the
\* table at the page break (mid), the footer, what follows (bottom).
Layouts ==
  [top : {"none", "filing_id", "signature", "footer"},
   header : BOOLEAN,
   body : {"rows", "other", "none"},
   mid : {"none", "filing_id", "header"},
   footer : BOOLEAN,
   bottom : {"none", "filing_id", "signature"}]

Part(name, digits) ==
  CASE name = "none" -> <<>>
    [] name = "filing_id" -> FilingIdLine(digits)
    [] name = "signature" -> SignatureLine
    [] name = "footer" -> FooterLine
    [] name = "header" -> <<TABLE_HEADER>>

LayoutDocument(l) ==
  << Lines(<<Part(l.top, "123456"),
             IF l.header THEN <<TABLE_HEADER>> ELSE <<>>,
             CASE l.body = "rows" -> Row(GoodRow("P", TRUE, FALSE))
               [] l.body = "other" -> OtherLine
               [] l.body = "none" -> <<>> >>),
     <<NUL>> \o
     Lines(<<Part(l.mid, "77"),
             IF l.body = "rows" THEN Row(GoodRow("S", FALSE, TRUE)) ELSE <<>>,
             IF l.body = "rows" THEN Row(GoodRow("S (partial)", TRUE, FALSE)) ELSE <<>>,
             IF l.footer THEN FooterLine ELSE <<>>,
             Part(l.bottom, "123456")>>) >>

LayoutDocuments == {LayoutDocument(l) : l \in Layouts}

\* documents whose pages hold no text: nothing at all, or only NUL bytes
BlankDocuments ==
  UNION {[1..n -> {<<>>, <<NUL>>}] : n \in 0..MaxPages}

Documents == RowDocuments \cup LayoutDocuments \cup BlankDocuments

\* ------------------------------------------------------------- machine

Init ==
  /\ page_texts \in Documents
  /\ pc = "extract_cleansed_text"
  /\ cleansed_text = <<>>
  /\ transactions_block = <<>>
  /\ transaction_matches = <<>>
  /\ ts = <<>>
  /\ ret = NotReturned
  /\ ran = <<>>
  /\ locals = NoLocals
  /\ call = NoCall
  /\ ps = <<>>
  /\ parse_results = <<>>
  /\ daily = "not run"
  /\ success_results = None
  /\ logged = <<>>
  /\ database = NoDatabase
  /\ db_write = None
  /\ runs = 1
  /\ parser = LinkExtractor
  /\ fed = <<>>

Next ==
  \/ ExtractCleansedText
  \/ ExtractTransactionsBlock
  \/ ParseTransactions
  \/ AssembleReport
  \/ CallTransactionsFromBlock
  \/ CallTransactionFromMatch
  \/ CallAssetFromMatch
  \/ CallTransactionTypeFromMatch
  \/ CallDateFromMatch
  \/ CallAmountRangeFromMatch
  \/ CallFilingStatusFromMatch
  \/ CallReportFromCleansedText

Spec == Init /\ [][Next]_vars

\* ------------------------------------------------------------ daily.py
(***************************************************************************)
(* The batch of daily.py's main: parse_reports calls parse_report on the   *)
(* files of the report directory one after the other, then                 *)
(* write_new_reports_to_db and log_parse_results read the list it built.   *)
(* An exception nobody catches ends main.                                  *)
(***************************************************************************)

MaxFiles == 2    \* files in the report directory

\* r.<name> on what parse_report returned: None has no attributes, a Report
\* has its fields
HasAttribute(r, name) ==
  \/ r.kind = "Report" /\ name \in DOMAIN r.report
  \/ r.kind = "ParseReportResult" /\ name \in DOMAIN r

\* parse_reports, the list comprehension: the next file is handed to parse_report
CallParseReport ==
  /\ daily = "parse_reports"
  /\ pc = "not called"
  /\ Len(parse_results) < Len(ps)
  /\ page_texts' = ps[Len(parse_results) + 1]
  /\ pc' = "extract_cleansed_text"
  /\ cleansed_text' = <<>>
  /\ transactions_block' = <<>>
  /\ transaction_matches' = <<>>
  /\ ts' = <<>>
  /\ ret' = NotReturned
  /\ ran' = <<>>
  /\ UNCHANGED <<locals, call, daily_vars, db_vars, search_vars>>

\* parse_reports, the list comprehension: parse_report has left; what it
\* returned is the next element, what it raised leaves parse_reports and main
ParseReportLeaves ==
  /\ daily = "parse_reports"
  /\ pc = "done"
  /\ pc' = "not called"
  /\ IF ret.kind = "raise"
     THEN daily' = "raised" /\ parse_results' = parse_results
     ELSE daily' = daily /\ parse_results' = Append(parse_results, ret)
  /\ UNCHANGED <<page_texts, cleansed_text, transactions_block, transaction_matches,
                 ts, ret, ran, locals, call, ps, success_results, logged, db_vars, search_vars>>

\* return rs
ParseReportsReturns ==
  /\ daily = "parse_reports"
  /\ pc = "not called"
  /\ Len(parse_results) = Len(ps)
  /\ daily' = "write_new_reports_to_db"
  /\ UNCHANGED <<parse_report_vars, locals, call, ps, parse_results, success_results, logged, db_vars, search_vars>>

\* write_new_reports_to_db(parse_results): success_results = [r for r in
\* parse_results if r.success]; r = Report.db_write_many(cur, [r.data for r
\* in success_results]); conn.commit().  An exception leaves before the
\* commit, and what the cursor wrote is gone with the connection.
WriteNewReportsToDb ==
  /\ daily = "write_new_reports_to_db"
  /\ IF \E i \in 1..Len(parse_results) : ~HasAttribute(parse_results[i], "success")
     THEN daily' = "raised" /\ success_results' = success_results
          /\ UNCHANGED <<database, db_write>>
     ELSE LET kept == SelectSeq(parse_results, LAMBDA r : r.success)
              rs == [i \in 1..Len(kept) |-> kept[i].data[1]]
              w == db_write_many(database, rs)
          IN /\ success_results' = Some(kept)
             /\ db_write' = Some([before |-> database, rs |-> rs, r |-> w.r])
             /\ IF w.r.raised
                THEN daily' = "raised" /\ database' = database
                ELSE daily' = "log_parse_results" /\ database' = w.cur
  /\ UNCHANGED <<parse_report_vars, locals, call, ps, parse_results, logged, runs, search_vars>>

\* for r in rs: print(r.success), print(r.message), print(r.file_path), print(r.data)
LogParseResults ==
  /\ daily = "log_parse_results"
  /\ IF \E i \in 1..Len(parse_results) :
          \E name \in {"success", "message", "file_path", "data"} :
             ~HasAttribute(parse_results[i], name)
     THEN daily' = "raised" /\ logged' = logged
     ELSE daily' = "done" /\ logged' = parse_results
  /\ UNCHANGED <<parse_report_vars, locals, call, ps, parse_results, success_results,
                 db_vars, search_vars>>

\* the files of a report directory: reports of two rows (the first a
\* purchase, a sale, or a row with an unrecognized filing status) and a file
\* with one page and no text
BatchDocuments ==
  {RowDocument(<<first, GoodRow("P", TRUE, FALSE)>>) :
     first \in {GoodRow("P", FALSE, TRUE), GoodRow("S", FALSE, TRUE), BadRow({"filing_status"})}}
    \cup {<< <<>> >>}

Batches == UNION {[1..n -> BatchDocuments] : n \in 0..MaxFiles}

BatchInit ==
  /\ ps \in Batches
  /\ parse_results = <<>>
  /\ daily = "parse_reports"
  /\ success_results = None
  /\ logged = <<>>
  /\ database = EmptyDatabase("plain")
  /\ db_write = None
  /\ runs = 1
  /\ parser = LinkExtractor
  /\ fed = <<>>
  /\ page_texts = <<>>
  /\ pc = "not called"
  /\ cleansed_text = <<>>
  /\ transactions_block = <<>>
  /\ transaction_matches = <<>>
  /\ ts = <<>>
  /\ ret = NotReturned
  /\ ran = <<>>
  /\ locals = NoLocals
  /\ call = NoCall

BatchNext ==
  \/ CallParseReport
  \/ ExtractCleansedText
  \/ ExtractTransactionsBlock
  \/ ParseTransactions
  \/ AssembleReport
  \/ ParseReportLeaves
  \/ ParseReportsReturns
  \/ WriteNewReportsToDb

BatchSpec == BatchInit /\ [][BatchNext]_vars

\* ------------------------------------------------------ the functions
(***************************************************************************)
(* cleanse_raw_text and the field constructors are functions of their      *)
(* argument alone.  Here a behaviour is one call: a function is entered    *)
(* with a text of a bounded set and returns; no document is being parsed   *)
(* and main is not running.                                                *)
(***************************************************************************)

\* a function entered with its argument
Entered(fn, arg) == [fn |-> fn, arg |-> arg]

\* call is a call of fn that has returned
Applied(fn) == call.fn = fn /\ "result" \in DOMAIN call

MaxTextLen == 4    \* characters of a raw text handed to cleanse_raw_text

\* the texts of at most n characters over an alphabet
Texts(alphabet, n) == UNION {[1..k -> alphabet] : k \in 0..n}

RawTexts == Texts({SP, NL, NUL, "a", "b"}, MaxTextLen)

CleanseRawText ==
  /\ call = Entered("cleanse_raw_text", call.arg)
  /\ call' = Called("cleanse_raw_text", call.arg, cleanse_raw_text(call.arg))
  /\ UNCHANGED <<parse_report_vars, locals, daily_vars, db_vars, search_vars>>

MaxCodeLen == 5    \* lexemes of a text handed to TransactionType

\* texts made of what type codes are made of, and a letter that is in none
TypeTexts == Texts({"P", "S", "X", SP, "(", "partial", ")"}, MaxCodeLen)

\* models.py TransactionType.from_match
TransactionTypeFromMatch ==
  /\ call = Entered("TransactionType.from_match", call.arg)
  /\ call' = Called("TransactionType.from_match", call.arg, TransactionType_from_match(call.arg))
  /\ UNCHANGED <<parse_report_vars, locals, daily_vars, db_vars, search_vars>>

\* parse.py TransactionType.from_group
TransactionTypeFromGroup ==
  /\ call = Entered("TransactionType.from_group", call.arg)
  /\ call' = Called("TransactionType.from_group", call.arg, TransactionType_from_group(call.arg))
  /\ UNCHANGED <<parse_report_vars, locals, daily_vars, db_vars, search_vars>>

MaxStatusLen == 3    \* lexemes of a text handed to FilingStatus

\* texts made of "New", other words and spaces
StatusTexts == Texts({"New", "Not", "Old", SP}, MaxStatusLen)

\* models.py FilingStatus.from_match
FilingStatusFromMatch ==
  /\ call = Entered("FilingStatus.from_match", call.arg)
  /\ call' = Called("FilingStatus.from_match", call.arg, FilingStatus_from_match(call.arg))
  /\ UNCHANGED <<parse_report_vars, locals, daily_vars, db_vars, search_vars>>

\* parse.py FilingStatus.from_group
FilingStatusFromGroup ==
  /\ call = Entered("FilingStatus.from_group", call.arg)
  /\ call' = Called("FilingStatus.from_group", call.arg, FilingStatus_from_group(call.arg))
  /\ UNCHANGED <<parse_report_vars, locals, daily_vars, db_vars, search_vars>>

\* texts a date is read from: month, day and year written in one or two,
\* four or some other number of digits, with either separator, alone or
\* after a space
DateTexts ==
  {before \o month \o <<sep>> \o day \o <<sep>> \o year :
     before \in {<<>>, <<SP>>},
     sep \in {"/", "-"},
     month \in {<<"0", "3">>, <<"3">>, <<"0", "2">>, <<"1", "2">>, <<"1", "3">>, <<"0", "0">>, <<>>},
     day \in {<<"1", "4">>, <<"0", "4">>, <<"4">>, <<"2", "9">>, <<"3", "1">>, <<"3", "2">>, <<"0", "0">>},
     year \in {<<"2", "0", "2", "4">>, <<"2", "0", "2", "3">>, <<"0", "9", "9", "9">>,
               <<"2", "4">>, <<"2", "0", "2", "4", "5">>}}

\* the dates there are, among some years, months and days
Dates ==
  {d \in [year : {999, 2023, 2024}, month : {2, 3, 12}, day : {4, 14, 29, 31}] :
     d.day <= DaysInMonth(d.year, d.month)}

\* models.py Date.from_match
DateFromMatch ==
  /\ call = Entered("Date.from_match", call.arg)
  /\ call' = Called("Date.from_match", call.arg, Date_from_match(call.arg))
  /\ UNCHANGED <<parse_report_vars, locals, daily_vars, db_vars, search_vars>>

\* models.py Date.from_date(d).format()
DateFormat ==
  /\ call = Entered("Date.format", call.arg)
  /\ \E text \in Date_format(Date_from_date(call.arg)) :
       call' = Called("Date.format", call.arg, text)
  /\ UNCHANGED <<parse_report_vars, locals, daily_vars, db_vars, search_vars>>

\* one amount as it is written: a dollar sign or none, digits or none,
\* thousands separators
Amounts ==
  {<<"$", "1", ",", "0", "0", "1">>, <<"$", "1", "5", ",", "0", "0", "0">>,
   <<"$", "5", "0", "0">>, <<"$", "0">>, <<"$", "1", ",", "0", ",", "0", "1">>,
   <<"$">>, <<"$", ",">>, <<"5", "0", "0">>}

\* what stands between the two amounts
Separators == {<<SP, "-", SP>>, <<"-">>, <<SP>>}

AmountTexts == {a \o sep \o b : a \in Amounts, sep \in Separators, b \in Amounts}

\* models.py AmountRange.from_match
AmountRangeFromMatch ==
  /\ call = Entered("AmountRange.from_match", call.arg)
  /\ call' = Called("AmountRange.from_match", call.arg, AmountRange_from_match(call.arg))
  /\ UNCHANGED <<parse_report_vars, locals, daily_vars, db_vars, search_vars>>

\* texts an asset is read from: a name or none, a parenthesized part or
\* none, a bracketed part or a broken one, with or without the spaces between
AssetTexts ==
  {name \o gap1 \o paren \o gap2 \o bracket :
     name \in {<<>>, <<"Amazon.com">>, <<"Amazon.com", SP, "Inc">>, <<"Vanguard", SP, "Fund">>},
     gap1 \in {<<>>, <<SP>>},
     paren \in {<<>>, <<"(", "AMZN", ")">>, <<"(", ")">>, <<"(", "AMZN">>,
                <<"(", "A", ")", SP, "(", "B", ")">>},
     gap2 \in {<<>>, <<SP>>},
     bracket \in {<<"[", "ST", "]">>, <<"[", "EF", "]">>, <<"[", "]">>, <<"[", "ST">>,
                  <<"ST", "]">>, <<>>}}

\* models.py Asset.from_match
AssetFromMatch ==
  /\ call = Entered("Asset.from_match", call.arg)
  /\ call' = Called("Asset.from_match", call.arg, Asset_from_match(call.arg))
  /\ UNCHANGED <<parse_report_vars, locals, daily_vars, db_vars, search_vars>>

\* parse.py Asset.from_group
AssetFromGroup ==
  /\ call = Entered("Asset.from_group", call.arg)
  /\ call' = Called("Asset.from_group", call.arg, Asset_from_group(call.arg))
  /\ UNCHANGED <<parse_report_vars, locals, daily_vars, db_vars, search_vars>>

MaxBlockLen == 5    \* lexemes between the first header and the footer of a text

\* texts handed to extract_transactions_block: a table between a header and
\* two footers, made of Filing ID literals (whole and in pieces) and digits;
\* and shorter texts of headers, footers, Filing ID literals, digits, spaces
\* and letters, which may lack header or footer
BlockTexts ==
  {<<"a", TABLE_HEADER>> \o body \o <<TABLE_FOOTER, SP, TABLE_FOOTER>> :
     body \in Texts({FILING_ID_PREFIX, "Fil", "ing ID #", "77"}, MaxBlockLen)}
    \cup Texts({TABLE_HEADER, TABLE_FOOTER, FILING_ID_PREFIX, "77", SP, "a"}, MaxBlockLen - 1)

\* parse.py extract_transactions_block
ExtractBlock ==
  /\ call = Entered("extract_transactions_block", call.arg)
  /\ call' = Called("extract_transactions_block", call.arg,
                    extract_transactions_block(call.arg))
  /\ UNCHANGED <<parse_report_vars, locals, daily_vars, db_vars, search_vars>>

MaxFilingId == 2    \* filing ids of the reports handed to the database

FilingIds == 1..MaxFilingId

\* a transaction
SampleTransaction ==
  [asset |-> [name |-> <<"A", "B">>, type |-> <<"ST">>, ticker |-> None],
   type |-> "SALE", filing_status |-> "NEW",
   transaction_date |-> [year |-> 2024, month |-> 3, day |-> 4],
   notification_date |-> [year |-> 2024, month |-> 3, day |-> 5],
   amount |-> [min |-> 1001, max |-> 15000],
   subholding_of |-> None, description |-> None, comment |-> None,
   raw_text |-> <<"A", "B", SP, "[", "ST", "]">>]

\* it and the transactions that differ from it in one attribute
SampleTransactions ==
  LET t == SampleTransaction
  IN {t,
      [t EXCEPT !.asset.name = <<"A", "C">>],
      [t EXCEPT !.type = "SALE_PARTIAL"],
      [t EXCEPT !.transaction_date.day = 14],
      [t EXCEPT !.asset.type = <<"OP">>],
      [t EXCEPT !.asset.ticker = Some(<<"AB">>)],
      [t EXCEPT !.notification_date.month = 4],
      [t EXCEPT !.amount = [min |-> 15001, max |-> 50000]],
      [t EXCEPT !.subholding_of = Some(<<"Trust">>)],
      [t EXCEPT !.description = Some(<<"Sold">>)],
      [t EXCEPT !.comment = Some(<<"note">>)],
      [t EXCEPT !.raw_text = <<"A", "B", SP, SP, "[", "ST", "]">>]}

\* the arguments of Transactions.to_db_tuples: two transactions of one
\* report, one transaction of each of two reports, and filing ids that are
\* fewer than the reports
ToDbTuplesArguments ==
  {[ts |-> <<<<a, b>>>>, filing_ids |-> <<f>>] :
     a \in SampleTransactions, b \in SampleTransactions, f \in FilingIds}
    \cup {[ts |-> <<<<a>>, <<b>>>>, filing_ids |-> <<f, g>>] :
            a \in SampleTransactions, b \in SampleTransactions, f \in FilingIds, g \in FilingIds}
    \cup {[ts |-> <<<<a>>, <<a>>>>, filing_ids |-> <<f>>] :
            a \in SampleTransactions, f \in FilingIds}

\* models.py Transactions.to_db_tuples
TransactionsToDbTuples ==
  /\ call = Entered("Transactions.to_db_tuples", call.arg)
  /\ call' = Called("Transactions.to_db_tuples", call.arg,
                    Transactions_to_db_tuples(call.arg.ts, call.arg.filing_ids))
  /\ UNCHANGED <<parse_report_vars, locals, daily_vars, db_vars, search_vars>>

Calls ==
  {Entered("cleanse_raw_text", raw_text) : raw_text \in RawTexts}
    \cup {Entered("extract_transactions_block", raw_text) : raw_text \in BlockTexts}
    \cup {Entered("Transactions.to_db_tuples", a) : a \in ToDbTuplesArguments}
    \cup {Entered(fn, g) : fn \in {"Asset.from_match", "Asset.from_group"}, g \in AssetTexts}
    \cup {Entered("AmountRange.from_match", g) : g \in AmountTexts}
    \cup {Entered("Date.from_match", g) : g \in DateTexts}
    \cup {Entered("Date.format", d) : d \in Dates}
    \cup {Entered(fn, g) : fn \in {"FilingStatus.from_match", "FilingStatus.from_group"},
                           g \in StatusTexts}
    \cup {Entered(fn, g) : fn \in {"TransactionType.from_match", "TransactionType.from_group"},
                           g \in TypeTexts}

FunctionInit ==
  /\ call \in Calls
  /\ locals = NoLocals
  /\ page_texts = <<>>
  /\ pc = "not called"
  /\ cleansed_text = <<>>
  /\ transactions_block = <<>>
  /\ transaction_matches = <<>>
  /\ ts = <<>>
  /\ ret = NotReturned
  /\ ran = <<>>
  /\ ps = <<>>
  /\ parse_results = <<>>
  /\ daily = "not run"
  /\ success_results = None
  /\ logged = <<>>
  /\ database = NoDatabase
  /\ db_write = None
  /\ runs = 1
  /\ parser = LinkExtractor
  /\ fed = <<>>

FunctionNext ==
  \/ CleanseRawText
  \/ TransactionTypeFromMatch
  \/ TransactionTypeFromGroup
  \/ FilingStatusFromMatch
  \/ FilingStatusFromGroup
  \/ DateFromMatch
  \/ DateFormat
  \/ AmountRangeFromMatch
  \/ AssetFromMatch
  \/ AssetFromGroup
  \/ ExtractBlock
  \/ TransactionsToDbTuples

FunctionSpec == FunctionInit /\ [][FunctionNext]_vars

\* ------------------------------------------------- daily.py: the database
(***************************************************************************)
(* write_new_reports_to_db against a database that lives from one run of   *)
(* main to the next.  parse_report of parse.py returns a Report or None;   *)
(* the ParseReportResult daily.py imports from it is defined nowhere, so   *)
(* the results handed to write_new_reports_to_db are what the              *)
(* specification says parse_report returns: a Result of a Report that      *)
(* carries the file it came from.                                          *)
(***************************************************************************)

MaxRuns == 2       \* runs of main against one database
MaxResults == 2    \* parse results of one run

\* parse_report(document) -> Result<Report>, with the originating file
ParseReportResult(success, message, file_path, data) ==
  [kind |-> "ParseReportResult", success |-> success, message |-> message,
   file_path |-> file_path, data |-> data]

\* the reports of a run: a filing id, and no transaction, one, two with the
\* same name, type and date, or two with different names
SampleReports ==
  {[filing_id |-> f, representative_name |-> <<"Jane", SP, "Doe">>,
    signed_date |-> [year |-> 2024, month |-> 3, day |-> 6], transactions |-> transactions] :
     f \in FilingIds,
     transactions \in
       {<<>>, <<SampleTransaction>>,
        <<SampleTransaction, [SampleTransaction EXCEPT !.amount = [min |-> 15001, max |-> 50000]]>>,
        <<SampleTransaction, [SampleTransaction EXCEPT !.asset.name = <<"A", "C">>]>>}}

\* the parse results of a run: successes with their report, and a failure
SampleResults ==
  UNION {[1..n -> {ParseReportResult(TRUE, <<>>, "tmp/0.pdf", Some(r)) : r \in SampleReports}
                    \cup {ParseReportResult(FALSE, <<"Filing ID not found">>, "tmp/1.pdf", None)}] :
           n \in 0..MaxResults}

\* main, once more on the database the run before left
RunAgain ==
  /\ daily \in {"done", "raised"}
  /\ runs < MaxRuns
  /\ runs' = runs + 1
  /\ parse_results' \in SampleResults
  /\ daily' = "write_new_reports_to_db"
  /\ success_results' = None
  /\ logged' = <<>>
  /\ UNCHANGED <<parse_report_vars, locals, call, ps, database, db_write, search_vars>>

DbInit ==
  /\ database \in {EmptyDatabase(schema) : schema \in Schemas}
  /\ db_write = None
  /\ runs = 1
  /\ parse_results \in SampleResults
  /\ daily = "write_new_reports_to_db"
  /\ success_results = None
  /\ logged = <<>>
  /\ ps = <<>>
  /\ page_texts = <<>>
  /\ pc = "not called"
  /\ cleansed_text = <<>>
  /\ transactions_block = <<>>
  /\ transaction_matches = <<>>
  /\ ts = <<>>
  /\ ret = NotReturned
  /\ ran = <<>>
  /\ locals = NoLocals
  /\ call = NoCall
  /\ parser = LinkExtractor
  /\ fed = <<>>

DbNext ==
  \/ WriteNewReportsToDb
  \/ LogParseResults
  \/ RunAgain

DbSpec == DbInit /\ [][DbNext]_vars

\* ---------------------------------------------------- search.py: feeding
MaxEvents == 7    \* events fed to one LinkExtractor

\* the events of a result table: the tags of a row, of its Name and Filing
\* cells and of a link, and the text of a filing type
StartTags ==
  {<<"tr", <<>>>>, <<"td", <<<<"data-label", "Name">>>>>>, <<"td", <<<<"data-label", "Filing">>>>>>,
   <<"a", <<<<"href", "public_disc/ptr-pdfs/2024/1.pdf">>>>>>}

\* feed(): the next piece of markup is a start tag
HandleStarttag ==
  /\ Len(fed) < MaxEvents
  /\ \E e \in StartTags :
       /\ parser' = handle_starttag(parser, e[1], e[2])
       /\ fed' = Append(fed, [event |-> "starttag", tag |-> e[1], attrs |-> e[2]])
  /\ UNCHANGED <<parse_report_vars, locals, call, daily_vars, db_vars>>

\* feed(): the next piece of markup is an end tag
HandleEndtag ==
  /\ Len(fed) < MaxEvents
  /\ \E tag \in {"td", "tr"} :
       /\ parser' = handle_endtag(parser, tag)
       /\ fed' = Append(fed, [event |-> "endtag", tag |-> tag])
  /\ UNCHANGED <<parse_report_vars, locals, call, daily_vars, db_vars>>

\* feed(): the next piece of markup is text
HandleData ==
  /\ Len(fed) < MaxEvents
  /\ \E data \in {<<SP, "PTR Original", NL>>} :
       /\ parser' = handle_data(parser, data)
       /\ fed' = Append(fed, [event |-> "data", data |-> data])
  /\ UNCHANGED <<parse_report_vars, locals, call, daily_vars, db_vars>>

SearchInit ==
  /\ parser = LinkExtractor
  /\ fed = <<>>
  /\ database = NoDatabase
  /\ db_write = None
  /\ runs = 1
  /\ parse_results = <<>>
  /\ daily = "not run"
  /\ success_results = None
  /\ logged = <<>>
  /\ ps = <<>>
  /\ page_texts = <<>>
  /\ pc = "not called"
  /\ cleansed_text = <<>>
  /\ transactions_block = <<>>
  /\ transaction_matches = <<>>
  /\ ts = <<>>
  /\ ret = NotReturned
  /\ ran = <<>>
  /\ locals = NoLocals
  /\ call = NoCall

SearchNext ==
  \/ HandleStarttag
  \/ HandleEndtag
  \/ HandleData

SearchSpec == SearchInit /\ [][SearchNext]_vars

\* ------------------------------------------------------------ claims

\* what stage of parse_report the name stands for, in the order of the code
StageOrder == <<"extract_cleansed_text", "extract_transactions_block", "transactions", "report">>

HasHeader(t) == Occurrences(t, TABLE_HEADER) # {}
\* the text after the first header, later headers removed
AfterFirstHeader(t) ==
  Remove(SubSeq(t, Min(Occurrences(t, TABLE_HEADER)) + 1, Len(t)), TABLE_HEADER)
HasFooter(t) == HasHeader(t) /\ Occurrences(AfterFirstHeader(t), TABLE_FOOTER) # {}

\* sub occurs in msg
Contains(msg, sub) ==
  \E k \in 0..(Len(msg) - Len(sub)) : SubSeq(msg, k + 1, k + Len(sub)) = sub

WellFormedResult(r) ==
  /\ r.success => r.data # None /\ r.message = <<>>
  /\ ~r.success => r.message # <<>> /\ r.data = None

\* C1: every result a parsing stage returns (Asset, TransactionType,
\* FilingStatus, Date, AmountRange, Transaction, Transactions block, Report)
\* has its data present and an empty message when success is true, and a
\* non-empty message and no data when success is false.
C1_ResultInvariant ==
  /\ call # NoCall => WellFormedResult(call.result)
  /\ \A i \in 1..Len(locals.rs) : WellFormedResult(locals.rs[i])

\* a field constructor has returned a failure for a block in which one
\* transaction was built and another was not
C1_Witness ==
  /\ call # NoCall
  /\ call.fn \in {"Asset.from_match", "TransactionType.from_match", "FilingStatus.from_match",
                  "Date.from_match", "AmountRange.from_match"}
  /\ ~call.result.success
  /\ \E i, j \in 1..Len(locals.rs) : locals.rs[i].success /\ ~locals.rs[j].success


\* what the spec counts as the failure of a stage that has run
StageFailed(stage) ==
  CASE stage = "extract_cleansed_text" -> cleansed_text = <<>>
    [] stage = "extract_transactions_block" -> ~HasFooter(cleansed_text)
    [] stage = "transactions" ->
         \/ transaction_matches = <<>>
         \/ \E i \in 1..Len(transaction_matches) :
              parse_Transaction_from_match(transaction_matches[i]).raised
    [] stage = "report" -> parse_Report_from_cleansed_text(cleansed_text, ts).raised

\* C2: parse_report runs its stages in the order text extraction, block
\* extraction, transaction parsing, report assembly; once a stage fails no
\* later stage runs and the result is a failure; a Report is returned only
\* if all four stages succeeded.
C2_ShortCircuit ==
  /\ ran = SubSeq(StageOrder, 1, Len(ran))
  /\ \A i \in 1..Len(ran) :
       StageFailed(ran[i]) => i = Len(ran) /\ pc = "done" /\ ret.kind # "Report"
  /\ ret.kind = "Report" =>
       ran = StageOrder /\ \A i \in 1..Len(ran) : ~StageFailed(ran[i])

\* C3: when at least one transaction match of the block fails field
\* assembly, Transactions.from_transactions_block fails with no list at all,
\* its message holding the failure message of every failing match; and
\* parse_report, on a match that fails, leaves no transaction list.
C3_AllOrNothing ==
  /\ /\ call # NoCall
     /\ call.fn = "Transactions.from_transactions_block"
     /\ \E i \in 1..Len(locals.rs) : ~locals.rs[i].success
     => /\ ~call.result.success
        /\ call.result.data = None
        /\ \A i \in 1..Len(locals.rs) :
             ~locals.rs[i].success => Contains(call.result.message, locals.rs[i].message)
  /\ (\E i \in 1..Len(transaction_matches) :
        parse_Transaction_from_match(transaction_matches[i]).raised)
     => ts = <<>> /\ ret.kind = "raise"

\* the block has been parsed and two of its matches failed, with different
\* messages
C3_Witness ==
  /\ call # NoCall
  /\ call.fn = "Transactions.from_transactions_block"
  /\ ~call.result.success
  /\ \E i, j \in 1..Len(locals.rs) :
       /\ ~locals.rs[i].success /\ ~locals.rs[j].success
       /\ locals.rs[i].message # locals.rs[j].message

FieldOrder ==
  <<"asset", "type", "transaction_date", "notification_date", "amount", "filing_status">>

\* the words by which a failure message names the field
FieldWords ==
  [asset |-> "Transaction asset could not be created: ",
   type |-> "Transaction type could not be created: ",
   transaction_date |-> "Transaction date could not be created: ",
   notification_date |-> "Notification date could not be created: ",
   amount |-> "Transaction amount range could not be created: ",
   filing_status |-> "Transaction filing status could not be created: "]

\* the sub-parse of field k of the match m
SubParse(k, m) ==
  CASE k = 1 -> Asset_from_match(m.asset)
    [] k = 2 -> TransactionType_from_match(m.type)
    [] k = 3 -> Date_from_match(m.transaction_date)
    [] k = 4 -> Date_from_match(m.notification_date)
    [] k = 5 -> AmountRange_from_match(m.amount_range)
    [] k = 6 -> FilingStatus_from_match(m.filing_status)

FailingFields(m) == {k \in 1..6 : ~SubParse(k, m).success}

\* C4: Transaction.from_match fails whenever one of the six sub-parses
\* fails, its message names the first failing field in the order asset,
\* type, transaction date, notification date, amount, filing status, and no
\* Transaction is built; a Transaction is returned only when all six succeed.
C4_FirstFailingField ==
  call # NoCall /\ call.fn = "Transaction.from_match" =>
    LET failing == FailingFields(call.arg)
    IN IF failing = {}
       THEN call.result.success /\ call.result.data # None
       ELSE /\ ~call.result.success
            /\ call.result.data = None
            /\ call.result.message =
                 <<FieldWords[FieldOrder[Min(failing)]]>> \o SubParse(Min(failing), call.arg).message

\* a match in which several fields fail at once has been assembled
C4_Witness ==
  /\ call # NoCall
  /\ call.fn = "Transaction.from_match"
  /\ Cardinality(FailingFields(call.arg)) >= 2
  /\ ~call.result.success

\* C5: extract_transactions_block on a cleansed text without the table
\* header phrase fails: it never hands back the input text, or any other
\* string, as the block.
C5_NoHeaderFound ==
  "extract_transactions_block" \in Stages /\ ~HasHeader(cleansed_text)
    => transactions_block = <<>>

\* C6: a document with the header but no footer phrase after the first
\* header fails at block extraction: no block is returned, the transaction
\* parsing stage never runs on it and no transactions are produced.
C6_NoFooterFound ==
  /\ "extract_transactions_block" \in Stages
  /\ HasHeader(cleansed_text)
  /\ ~HasFooter(cleansed_text)
  => /\ transactions_block = <<>>
     /\ "transactions" \notin Stages
     /\ transaction_matches = <<>> /\ ts = <<>>

\* C7: zero matches of the transaction pattern in a located block fail
\* block-level parsing with the no-transactions failure, and parse_report
\* never returns a Report with an empty transaction list.
C7_NoTransactionsFound ==
  /\ /\ call # NoCall
     /\ call.fn = "Transactions.from_transactions_block"
     /\ locals.ms = <<>>
     => call.result =
          Result(FALSE, <<"No transactions matches were found in the transactions block">>, None)
  /\ HasFooter(cleansed_text) /\ "transactions" \in Stages /\ transaction_matches = <<>>
     => "report" \notin Stages
  /\ HasFooter(cleansed_text) /\ ret.kind = "Report" => ret.report.transactions # <<>>

\* C8: a document every page of which extracts to empty text, whatever the
\* number of pages, ends at text extraction as an empty extraction, and no
\* later stage runs on it.
C8_EmptyExtraction ==
  (\A i \in 1..Len(page_texts) : page_texts[i] = <<>>) /\ ran # <<>>
    => ran = <<"extract_cleansed_text">> /\ pc = "done" /\ ret.kind = "None"

\* the tokens the report's identity is read from
FilingIdTokens(t) == {i \in 1..Len(t) : t[i] = FILING_ID_PREFIX /\ IsDigits(At(t, i + 1))}
SignatureTokens(t) ==
  {iq \in {i \in 1..Len(t) : t[i] = "Signed:"} \X {q \in 1..Len(t) : t[q] = ","} :
     /\ At(t, iq[1] + 1) = SP /\ At(t, iq[1] + 2) = "Hon." /\ At(t, iq[1] + 3) = SP
     /\ iq[2] >= iq[1] + 6
     /\ t[iq[2] - 1] = SP /\ At(t, iq[2] + 1) = SP /\ DatePattern(At(t, iq[2] + 2))}

\* C9: Report.from_cleansed_text fails with the filing-ID failure when the
\* text has no "Filing ID #<digits>" token, and otherwise with the signature
\* failure when it has no "Signed: Hon. <name> , <MM/DD/YYYY>" token; in
\* both cases no Report is built.
C9_ReportFailures ==
  /\ call # NoCall /\ call.fn = "Report.from_cleansed_text" =>
       /\ FilingIdTokens(call.arg) = {} =>
            call.result = Result(FALSE, <<"Filing ID could not be found in report">>, None)
       /\ FilingIdTokens(call.arg) # {} /\ SignatureTokens(call.arg) = {} =>
            call.result =
              Result(FALSE,
                     <<"Representative name and signing date could not be found in report">>,
                     None)
  /\ /\ "report" \in Stages
     /\ FilingIdTokens(cleansed_text) = {} \/ SignatureTokens(cleansed_text) = {}
     => ret.kind # "Report"

\* the report was asked of a text with a filing ID and no signature
C9_Witness ==
  /\ call # NoCall
  /\ call.fn = "Report.from_cleansed_text"
  /\ FilingIdTokens(call.arg) # {}
  /\ SignatureTokens(call.arg) = {}
  /\ ~call.result.success

\* A text with one filing ID token and one signature token, the two
\* exchanged: each now stands where the other stood.
OneOfEach(t) == Cardinality(FilingIdTokens(t)) = 1 /\ Cardinality(SignatureTokens(t)) = 1
Exchanged(t) ==
  LET f == CHOOSE i \in FilingIdTokens(t) : TRUE
      iq == CHOOSE x \in SignatureTokens(t) : TRUE
      i == iq[1]
      e == iq[2] + 2
  IN IF f < i
     THEN SubSeq(t, 1, f - 1) \o SubSeq(t, i, e) \o SubSeq(t, f + 2, i - 1)
            \o SubSeq(t, f, f + 1) \o SubSeq(t, e + 1, Len(t))
     ELSE SubSeq(t, 1, i - 1) \o SubSeq(t, f, f + 1) \o SubSeq(t, e + 1, f - 1)
            \o SubSeq(t, i, e) \o SubSeq(t, f + 2, Len(t))

Identity(report) ==
  <<report.filing_id, report.representative_name, report.signed_date>>

\* the number the first filing ID token of the text carries
FirstFilingId(t) == int(Chars[t[Min(FilingIdTokens(t)) + 1]])

\* C10: the filing-ID search and the signature search each scan the whole
\* cleansed text: the report has the same filing_id, representative_name and
\* signed_date whether the filing ID stands before or after the signature,
\* and the filing ID is found although block extraction strips filing ID
\* tokens from the transactions block.
C10_IndependentSearches ==
  /\ call # NoCall /\ call.fn = "Report.from_cleansed_text" =>
       /\ OneOfEach(call.arg) =>
            LET exchanged == Report_from_cleansed_text(Exchanged(call.arg), <<>>)
            IN /\ call.result.success
               /\ exchanged.success
               /\ Identity(call.result.data[1]) = Identity(exchanged.data[1])
       /\ FilingIdTokens(call.arg) # {} /\ SignatureTokens(call.arg) # {} =>
            /\ call.result.success
            /\ call.result.data[1].filing_id = FirstFilingId(call.arg)
  /\ "extract_transactions_block" \in Stages /\ HasFooter(cleansed_text) =>
       FilingIdTokens(transactions_block) = {}
  /\ ret.kind = "Report" => ret.report.filing_id = FirstFilingId(cleansed_text)

\* a report was built from a text whose signature precedes its only filing
\* ID, which stands inside the table, between the header and the footer
C10_Witness ==
  /\ call # NoCall
  /\ call.fn = "Report.from_cleansed_text"
  /\ call.result.success
  /\ OneOfEach(cleansed_text)
  /\ HasFooter(cleansed_text)
  /\ \E f \in FilingIdTokens(cleansed_text) :
       /\ \E iq \in SignatureTokens(cleansed_text) : iq[1] < f
       /\ Min(Occurrences(cleansed_text, TABLE_HEADER)) < f
       /\ \E k \in Occurrences(cleansed_text, TABLE_FOOTER) : f < k
  /\ FilingIdTokens(transactions_block) = {}


\* C11: no parsing stage raises on an expected-shape failure (an unrecognized
\* type code or filing status, an invalid date, a missing filing ID or
\* signature): parse_report never leaves by an exception.
C11_NoStageRaises == ret.kind # "raise"

\* C12: in a batch every file of the list is parsed and gives exactly one
\* result, which is logged; a document that fails to parse does not keep the
\* documents after it from being parsed, and only successful results are
\* handed to the persistence step.
C12_EveryFileParsedAndLogged ==
  daily \in {"done", "raised"} =>
    /\ Len(parse_results) = Len(ps)
    /\ logged = parse_results
    /\ success_results # None
    /\ \A i \in 1..Len(success_results[1]) : success_results[1][i].kind = "Report"

WellFormedRows == {k \in RowKinds : k.bad = {}}

\* C13: on success the transactions are one per grammar match of the block,
\* in document order, none dropped, duplicated or reordered, and Report
\* assembly stores the list it is given unchanged; a document with two
\* well-formed rows yields exactly 2 transactions.
C13_OneTransactionPerRow ==
  /\ BlockParsed /\ call.result.success =>
       LET made == call.result.data[1]
       IN /\ Len(made) = Len(locals.ms)
          /\ \A i \in 1..Len(made) : made[i] = locals.rs[i].data[1]
          /\ \A i \in 1..(Len(made) - 1) : locals.ms[i].end <= locals.ms[i + 1].start
          /\ \A rows \in [1..2 -> WellFormedRows] :
               page_texts = RowDocument(rows) => Len(made) = 2
  /\ call.fn = "Report.from_cleansed_text" /\ call.result.success =>
       LET given == Transactions_from_locals(locals)
       IN call.result.data[1].transactions = IF given.success THEN given.data[1] ELSE <<>>

\* C14: the raw_text of every successfully assembled Transaction is exactly
\* the span of the block the transaction grammar matched for that record:
\* nothing trimmed, nothing normalized, nothing of a neighbouring record.
C14_RawTextIsMatchedSpan ==
  BlockParsed =>
    /\ \A i \in 1..Len(locals.rs) :
         locals.rs[i].success =>
           locals.rs[i].data[1].raw_text
             = SubSeq(call.arg, locals.ms[i].start, locals.ms[i].end - 1)
    /\ \A i \in 1..(Len(locals.ms) - 1) : locals.ms[i].end <= locals.ms[i + 1].start

\* two records assembled from one block, the matched span of one ending in
\* a space
C14_Witness ==
  /\ BlockParsed
  /\ \E i, j \in 1..Len(locals.rs) :
       /\ i < j /\ locals.rs[i].success /\ locals.rs[j].success
       /\ locals.rs[i].data[1].raw_text[Len(locals.rs[i].data[1].raw_text)] = SP

\* the characters of a text that are neither whitespace nor NUL, in order
Visible(t) == SelectSeq(t, LAMBDA c : ~IsWs(c) /\ c # NUL)

\* C15: cleanse_raw_text returns, for every text, a text without NUL whose
\* only whitespace is single spaces, no two of them adjacent, with the other
\* characters of the input in their order; cleansing the result again
\* changes nothing.
C15_Normalized ==
  Applied("cleanse_raw_text") =>
    /\ \A i \in 1..Len(call.result) :
         /\ call.result[i] # NUL
         /\ IsWs(call.result[i]) => call.result[i] = SP
         /\ i < Len(call.result) => ~(call.result[i] = SP /\ call.result[i + 1] = SP)
    /\ Visible(call.result) = Visible(call.arg)
    /\ cleanse_raw_text(call.result) = call.result

\* a text with a NUL between two whitespace characters and a line break
\* next to a space has been cleansed
C15_Witness ==
  /\ Applied("cleanse_raw_text")
  /\ \E i \in 2..(Len(call.arg) - 1) :
       call.arg[i] = NUL /\ IsWs(call.arg[i - 1]) /\ IsWs(call.arg[i + 1])
  /\ \E i \in 1..Len(call.arg) : call.arg[i] = NL
  /\ \E i \in 1..Len(call.arg) : call.arg[i] \in {"a", "b"}
  /\ Len(call.result) = 2

\* the three type codes and the variant each stands for
TypeCodes ==
  (<<"P">> :> "PURCHASE") @@ (<<"S">> :> "SALE")
    @@ (<<"S", SP, "(", "partial", ")">> :> "SALE_PARTIAL")

\* C16: TransactionType maps "P" to PURCHASE, "S" to SALE and "S (partial)"
\* to SALE_PARTIAL; every other string gives a failure without data, never a
\* default variant (the parse.py copy gives the same variants and no value
\* otherwise).
C16_TypeCodes ==
  /\ Applied("TransactionType.from_match") =>
       IF call.arg \in DOMAIN TypeCodes
       THEN call.result = Result(TRUE, <<>>, Some(TypeCodes[call.arg]))
       ELSE /\ ~call.result.success
            /\ call.result.data = None
            /\ Contains(call.result.message, <<"' not recognized">>)
  /\ Applied("TransactionType.from_group") =>
       IF call.arg \in DOMAIN TypeCodes
       THEN call.result = Returned(TypeCodes[call.arg])
       ELSE call.result = Raised

\* "S(partial)", the partial sale written without its space, was refused
C16_Witness ==
  /\ Applied("TransactionType.from_match")
  /\ call.arg = <<"S", "(", "partial", ")">>
  /\ ~call.result.success

\* C17: FilingStatus yields NEW for the exact text "New" and for no other
\* text, not even one that contains "New"; any other text is a failure
\* without data, never a fallback variant.
C17_ExactlyNew ==
  /\ Applied("FilingStatus.from_match") =>
       IF call.arg = <<"New">>
       THEN call.result = Result(TRUE, <<>>, Some("NEW"))
       ELSE /\ ~call.result.success
            /\ call.result.data = None
            /\ Contains(call.result.message, <<"' not recognized">>)
  /\ Applied("FilingStatus.from_group") =>
       (call.result # Raised => call.arg = <<"New">>)

\* MM/DD/YYYY: two digits, a slash, two digits, a slash, four digits
IsMMDDYYYY(cs) ==
  /\ Len(cs) = 10
  /\ \A i \in {1, 2, 4, 5, 7, 8, 9, 10} : cs[i] \in Digit
  /\ cs[3] = "/" /\ cs[6] = "/"

\* the text names a day that exists
IsCalendarDate(cs) ==
  /\ int(SubSeq(cs, 1, 2)) \in 1..12
  /\ int(SubSeq(cs, 7, 10)) >= 1
  /\ int(SubSeq(cs, 4, 5)) \in 1..DaysInMonth(int(SubSeq(cs, 7, 10)), int(SubSeq(cs, 1, 2)))

\* C18: Date succeeds exactly for the texts of the form MM/DD/YYYY that name
\* a day of the calendar and fails otherwise; writing the date it read from
\* a text gives that text again, and reading what a date is written as gives
\* that date again.
C18_DateRoundTrip ==
  /\ Applied("Date.from_match") =>
       /\ call.result.success <=> (IsMMDDYYYY(call.arg) /\ IsCalendarDate(call.arg))
       /\ call.result.success => Date_format(call.result.data[1]) = {call.arg}
       /\ ~call.result.success => call.result.data = None /\ call.result.message # <<>>
  /\ Applied("Date.format") =>
       Date_from_match(call.result) = Result(TRUE, <<>>, Some(call.arg))

\* the digits of an amount, its thousands separators and dollar sign left out
DigitsOf(a) == SelectSeq(a, LAMBDA c : c \in Digit)

\* a dollar sign and at least one digit
HasDigitGroup(a) == a # <<>> /\ a[1] = "$" /\ DigitsOf(a) # <<>>

\* C19: AmountRange returns as min and max the numbers the two digit groups
\* of "$<min> - $<max>" denote once the thousands separators are removed,
\* whether or not min exceeds max, and fails when a digit group is missing,
\* as in "$ - $500", which the transaction grammar admits.
C19_AmountRange ==
  Applied("AmountRange.from_match") =>
    \A a, b \in Amounts, sep \in Separators :
      call.arg = a \o sep \o b =>
        IF HasDigitGroup(a) /\ HasDigitGroup(b) /\ sep = <<SP, "-", SP>>
        THEN call.result
               = Result(TRUE, <<>>, Some([min |-> int(DigitsOf(a)), max |-> int(DigitsOf(b))]))
        ELSE /\ ~call.result.success
             /\ call.result.data = None
             /\ call.result.message # <<>>

\* "$15,000 - $1,001" was accepted: min 15000, max 1001
C19_Witness ==
  /\ Applied("AmountRange.from_match")
  /\ call.result.success
  /\ call.result.data[1].min = 15000
  /\ call.result.data[1].max = 1001

\* the text has a "[" and a later "]"
HasBracketPair(g) == \E i, j \in 1..Len(g) : i < j /\ g[i] = "[" /\ g[j] = "]"

\* a parenthesized group stands before the bracket: "(", ..., ")", whitespace, "["
ParenthesizedBeforeBracket(g) ==
  \E o, c \in 1..Len(g) :
    o < c /\ g[o] = "(" /\ g[c] = ")" /\ IsWs(At(g, c + 1)) /\ At(g, c + 2) = "["

\* the same, the "(" itself standing after whitespace
ParenthesizedAfterWhitespace(g) ==
  \E o, c \in 1..Len(g) :
    /\ o < c /\ g[o] = "(" /\ g[c] = ")" /\ IsWs(At(g, c + 1)) /\ At(g, c + 2) = "["
    /\ IsWs(At(g, o - 1))

\* the asset as it is written: name, space, the ticker in parentheses if
\* there is one, the type in brackets
Written(a) ==
  a.name \o <<SP>>
    \o (IF a.ticker = None THEN <<>> ELSE <<"(">> \o a.ticker[1] \o <<")", SP>>)
    \o <<"[">> \o a.type \o <<"]">>

\* C20 as stated: on success the ticker is present exactly when a
\* parenthesized group precedes the bracket.
C20_TickerIffParenthesized ==
  Applied("Asset.from_match") /\ call.result.success =>
    (call.result.data[1].ticker # None <=> ParenthesizedBeforeBracket(call.arg))

\* C20, amended: Asset fails on a text without a bracket pair; on success
\* the text holds the name, a space, the ticker in parentheses if there is
\* one, and the type in brackets, and the ticker is present exactly when a
\* parenthesized group that follows whitespace precedes the bracket
\* ("Amazon.com Inc (AMZN) [ST]" has ticker AMZN, "Vanguard Fund [EF]" none).
C20_Asset ==
  /\ Applied("Asset.from_match") =>
       /\ ~HasBracketPair(call.arg) =>
            /\ ~call.result.success
            /\ call.result.data = None
            /\ call.result.message # <<>>
       /\ call.result.success =>
            /\ Contains(call.arg, Written(call.result.data[1]))
            /\ call.result.data[1].ticker # None <=> ParenthesizedAfterWhitespace(call.arg)
       /\ call.arg = <<"Amazon.com", SP, "Inc", SP, "(", "AMZN", ")", SP, "[", "ST", "]">> =>
            call.result = Result(TRUE, <<>>, Some([name |-> <<"Amazon.com", SP, "Inc">>,
                                                   ticker |-> Some(<<"AMZN">>),
                                                   type |-> <<"ST">>]))
       /\ call.arg = <<"Vanguard", SP, "Fund", SP, "[", "EF", "]">> =>
            call.result = Result(TRUE, <<>>, Some([name |-> <<"Vanguard", SP, "Fund">>,
                                                   ticker |-> None,
                                                   type |-> <<"EF">>]))
  /\ Applied("Asset.from_group") =>
       IF call.result = Raised
       THEN ~Asset_from_match(call.arg).success
       ELSE Asset_from_match(call.arg) = Result(TRUE, <<>>, Some(call.result.value))

\* "Amazon.com(AMZN) [ST]": the parenthesized group follows the name without
\* a space, and the asset was built without a ticker
C20_Witness ==
  /\ Applied("Asset.from_match")
  /\ call.arg = <<"Amazon.com", "(", "AMZN", ")", SP, "[", "ST", "]">>
  /\ call.result.success
  /\ call.result.data[1].ticker = None

\* C29: the grammar and the constructors agree on type codes: whatever the
\* transaction grammar captures as the type group of a row (parse.py's
\* pattern in parse_report, models.py's in from_transactions_block) is one
\* of the three codes TransactionType accepts, so no recognized row fails
\* assembly because of its type code.
C29_GrammarCapturesTypeCodes ==
  /\ \A i \in 1..Len(transaction_matches) :
       transaction_matches[i].type \in DOMAIN TypeCodes
  /\ BlockParsed => \A i \in 1..Len(locals.ms) : locals.ms[i].type \in DOMAIN TypeCodes

\* the text between the end of the first header and the start of the first
\* footer after it
Between(t) ==
  SubSeq(t, Min(Occurrences(t, TABLE_HEADER)) + 1,
            Min({f \in Occurrences(t, TABLE_FOOTER) : f > Min(Occurrences(t, TABLE_HEADER))}) - 1)

\* C24: when header and footer are found, extract_transactions_block
\* returns the text between the end of the first header and the start of
\* the first footer after it, without the later headers and the
\* "Filing ID #<digits>" tokens and with everything else in order; the
\* block has no header phrase, no footer phrase and no Filing ID token in
\* it, and no whitespace at either end.
C24_ExtractedBlock ==
  Applied("extract_transactions_block") /\ HasFooter(call.arg) =>
    /\ call.result = strip(RemoveFilingIds(Remove(Between(call.arg), TABLE_HEADER)))
    /\ Occurrences(call.result, TABLE_HEADER) = {}
    /\ Occurrences(call.result, TABLE_FOOTER) = {}
    /\ FilingIdStarts(call.result) = {}
    /\ call.result = strip(call.result)

\* the matches are one per row, each the text of its row with what it
\* wrote: the annotations of a row with notes, none for a row without
MatchesOfRows(ms, rows) ==
  /\ Len(ms) = Len(rows)
  /\ \A i \in 1..(Len(ms) - 1) : ms[i].end <= ms[i + 1].start
  /\ \A i \in 1..Len(ms) :
       /\ strip(ms[i].group) = Row(rows[i])
       /\ ms[i].filing_status = <<"New">>
       /\ ms[i].subholding_of = IF rows[i].notes THEN Some(<<"Trust">>) ELSE None
       /\ ms[i].comment = IF rows[i].notes THEN Some(<<"note">>) ELSE None
       /\ ms[i].description = IF rows[i].notes THEN Some(<<"Sold", SP, "shares">>) ELSE None

\* C25: a block of k consecutive well-formed rows, each with or without its
\* annotations, gives exactly k non-overlapping matches in order, under
\* either copy of the grammar; filing status and annotation values end at
\* the next marker, the next row's asset or the end of the text, so that no
\* match holds a part of the row after it, and absent annotations are
\* absent.
C25_OneMatchPerRow ==
  \A rows \in UNION {[1..k -> WellFormedRows] : k \in 1..MaxRows} :
    page_texts = RowDocument(rows) =>
      /\ "transactions" \in Stages => MatchesOfRows(transaction_matches, rows)
      /\ BlockParsed => MatchesOfRows(locals.ms, rows)

\* C21: the id of a transaction row is a function of the filing id, the
\* asset name, the transaction type and the transaction date alone: two rows
\* of Transactions.to_db_tuples made from the same four values have the same
\* id, whatever the ticker, the asset type, the amount, the notification
\* date, the notes and the raw text are; every given transaction gets a row,
\* whose id is the CRC-32 of the four values joined by "-".
C21_IdOfKeyAlone ==
  Applied("Transactions.to_db_tuples") /\ Len(call.arg.ts) = Len(call.arg.filing_ids) =>
    LET given == flattened([r \in 1..Len(call.arg.ts) |->
                   [i \in 1..Len(call.arg.ts[r]) |->
                      <<call.arg.filing_ids[r], call.arg.ts[r][i].asset.name,
                        call.arg.ts[r][i].type, call.arg.ts[r][i].transaction_date>>]])
    IN /\ Len(call.result) = Len(given)
       /\ \A i, j \in 1..Len(given) :
            given[i] = given[j] => call.result[i][1] = call.result[j][1]
       /\ \A i \in 1..Len(given) :
            /\ call.result[i][1] \in (0..65535) \X (0..65535)
            /\ call.result[i][2] = given[i][1]

\* two rows of one call with the same id whose raw texts differ
C21_Witness ==
  /\ Applied("Transactions.to_db_tuples")
  /\ Len(call.result) = 2
  /\ call.result[1][1] = call.result[2][1]
  /\ call.result[1][15] # call.result[2][15]

\* the rows the last write_new_reports_to_db added to a committed table
Added(table) ==
  SubSeq(database[table], Len(db_write[1].before[table]) + 1, Len(database[table]))

\* the reports the last db_write_many was handed whose filing id was not
\* stored before the call
NotStoredBefore ==
  SelectSeq(db_write[1].rs, LAMBDA r : r.filing_id \notin Ids(db_write[1].before.reports))

\* C22: filing_id is the deduplication key: after any sequence of
\* db_write_many calls, also with a list that holds a filing id twice or
\* repeats an earlier list, the reports table holds at most one row per filing
\* id, and no row is added for a filing id that was stored before the call.
C22_OneRowPerFilingId ==
  /\ \A i, j \in 1..Len(database.reports) :
       database.reports[i][1] = database.reports[j][1] => i = j
  /\ db_write # None =>
       /\ SubSeq(database.reports, 1, Len(db_write[1].before.reports)) = db_write[1].before.reports
       /\ Ids(Added("reports")) \cap Ids(db_write[1].before.reports) = {}

\* C23: transactions are never persisted without their owning report: the
\* filing id of every committed transaction row is the id of a committed
\* report row; a call adds transaction rows only with the filing ids of the
\* report rows it added, and adds none when the report write failed, that
\* is, when not every report that was to be written got its row.
C23_TransactionsWithReport ==
  /\ \A i \in 1..Len(database.transactions) :
       database.transactions[i][2] \in Ids(database.reports)
  /\ db_write # None =>
       /\ \A i \in 1..Len(Added("transactions")) :
            Added("transactions")[i][2] \in Ids(Added("reports"))
       /\ Len(Added("reports")) # Len(NotStoredBefore) => Added("transactions") = <<>>

\* a run that added transaction rows to a database of an earlier run, and
\* whose list held a report that was stored already
C23_Witness ==
  /\ db_write # None
  /\ db_write[1].before.reports # <<>>
  /\ Added("transactions") # <<>>
  /\ Len(NotStoredBefore) < Len(db_write[1].rs)

\* C26: write_new_reports_to_db rolls back in case of failure: when
\* db_write_many returns a failure (the report write or the transaction write
\* failed, or the affected row count is not the expected one), none of the
\* rows written during that call are committed.
C26_FailureRollsBack ==
  db_write # None /\ ~db_write[1].r.raised /\ ~db_write[1].r.value.success =>
    database = db_write[1].before

\* C28: db_write_many returns a DBWriteResult for every list of reports: on
\* the empty list, on a list whose reports are all stored already and on a
\* list whose new reports have no transactions it does not raise, and writes
\* no rows.
C28_AlwaysAResult ==
  db_write # None =>
    /\ ~db_write[1].r.raised
    /\ \/ NotStoredBefore = <<>>
       \/ \A i \in 1..Len(NotStoredBefore) : NotStoredBefore[i].transactions = <<>>
       => database = db_write[1].before

\* the event at position i of the events fed is a start tag, an end tag
IsStart(i, tag) == fed[i].event = "starttag" /\ fed[i].tag = tag
IsEnd(i, tag) == fed[i].event = "endtag" /\ fed[i].tag = tag

\* position k closes a row: an end tag of tr with a start tag of tr before it
\* and no end tag of tr in between; the row begins at the last such start tag
ClosesRow(k) ==
  /\ IsEnd(k, "tr")
  /\ \E s \in 1..(k - 1) : IsStart(s, "tr") /\ \A j \in (s + 1)..(k - 1) : ~IsEnd(j, "tr")

RowStart(k) == Max({s \in 1..(k - 1) : IsStart(s, "tr")})

\* position i of the row closed at k lies inside a cell of that label: a
\* start tag of td with the label stands before it in the row, with no end
\* tag of td in between
InCell(k, i, label) ==
  \E c \in (RowStart(k) + 1)..(i - 1) :
    /\ IsStart(c, "td")
    /\ AttrsGet(fed[c].attrs, "data-label", FALSE) = Some(label)
    /\ \A j \in (c + 1)..(i - 1) : ~IsEnd(j, "td")

\* the links of the row closed at k: the hrefs of the a tags inside its Name cell
RowLinks(k) ==
  {i \in (RowStart(k) + 1)..(k - 1) :
     /\ IsStart(i, "a")
     /\ AttrsGet(fed[i].attrs, "href", TRUE) # None
     /\ InCell(k, i, "Name")}

\* the filing type texts of the row closed at k: the texts inside its Filing cell
RowFilingTypes(k) ==
  {i \in (RowStart(k) + 1)..(k - 1) :
     fed[i].event = "data" /\ strip(fed[i].data) # <<>> /\ InCell(k, i, "Filing")}

\* C27: fed any sequence of start tags, end tags and text, LinkExtractor
\* appends a link exactly when a table row closes that has an href inside
\* its Name cell and the filing type text "PTR Original" inside its Filing
\* cell: the links are, in order, the last href of each such row, one per
\* row at most, and nothing of an earlier row enters the decision.
C27_LinksOfClosedRows ==
  parser.links =
    LET rows == SelectSeq([k \in 1..Len(fed) |-> k],
                          LAMBDA k : /\ ClosesRow(k)
                                     /\ RowLinks(k) # {}
                                     /\ AttrsGet(fed[Max(RowLinks(k))].attrs, "href", TRUE) # Some("")
                                     /\ RowFilingTypes(k) # {}
                                     /\ strip(fed[Max(RowFilingTypes(k))].data) = <<"PTR Original">>)
    IN [r \in 1..Len(rows) |-> AttrsGet(fed[Max(RowLinks(rows[r]))].attrs, "href", TRUE)[1]]

====
